---- MODULE Spec2Model ----
(***************************************************************************)
(* Model of Flashly's audio-aware AI quiz generation (AIQuizGenerator and   *)
(* the audio utilities it calls).  Texts are TLA+ strings and every text    *)
(* operation (regular-expression scan, replace, split/join, trim, ...) is   *)
(* computed character by character, the way the JavaScript does it.         *)
(***************************************************************************)
EXTENDS Integers, Sequences, FiniteSets, TLC

VARIABLES
    pc,                     \* position of the operation under way
    cards,                  \* FlashlyCard[] passed to generateQuestions
    audioMetadata,          \* extractAudioMetadata(cards): id -> {front, back}
    cardData,               \* cards.map(...) of generateQuestions: encoded texts
    decoded,                \* restoreAudioInText applied to cardData
    text,                   \* argument of restoreAudioInText
    restoredText,           \* result of restoreAudioInText
    questions,              \* response.questions of the provider arm
    questionsWithAudio,     \* result of restoreAudioInQuestions
    deduplicatedQuestions,  \* result of removeDuplicateQuestions
    content,                \* text payload of the provider's response
    cleanedContent,         \* cleanJsonString(content)
    settings,               \* AIQuizSettings of the generator
    cache,                  \* AudioTranscriptionService.cache (in memory)
    diskCache,              \* the file transcriptions.json of the vault
    cacheLoad,              \* the constructor's loadCache(): "pending" or "done"
    inFlight,               \* the transcribeAudio calls that have not returned yet
    lookup,                 \* the last getCachedTranscription call and its answer
    transcripts,            \* results of the transcribeAudio calls made so far
    requests,               \* network requests sent so far (requestUrl calls)
    response,               \* what the provider's request came back with
    outcome,                \* how generateQuestions settled
    embedText,              \* argument of removeAudioWikilinks
    strippedText,           \* result of removeAudioWikilinks
    childDeck,              \* first argument of isChildDeck
    parentDeck,             \* second argument of isChildDeck
    isChild                 \* result of isChildDeck

codecVars == <<cardData, decoded>>
restoreVars == <<text, restoredText>>
questionVars == <<questions, questionsWithAudio, deduplicatedQuestions>>
cleanVars == <<content, cleanedContent>>
serviceVars == <<cache, diskCache, cacheLoad, inFlight, lookup>>
callVars == <<transcripts, requests, response, outcome>>
pipeVars == <<settings, serviceVars, callVars>>
utilVars == <<embedText, strippedText, childDeck, parentDeck, isChild>>
vars == <<pc, cards, audioMetadata, codecVars, restoreVars, questionVars, cleanVars, pipeVars,
          utilVars>>

(***************************************************************************)
(* Bounds of the model.                                                     *)
(***************************************************************************)
MaxSegs == 2        \* segments a generated text is built from
MaxOptions == 2     \* options of a generated question
MaxQuestions == 3   \* questions of a generated list

(***************************************************************************)
(* JavaScript string primitives.                                            *)
(***************************************************************************)
Digits == {"0", "1", "2", "3", "4", "5", "6", "7", "8", "9"}
WhiteSpace == {" ", "\t", "\n", "\r", "\f"}
UpperCase == "ABCDEFGHIJKLMNOPQRSTUVWXYZ"
LowerCase == "abcdefghijklmnopqrstuvwxyz"

\* s.charAt(i - 1): the i-th character, "" outside the string
CharAt(s, i) == IF i >= 1 /\ i <= Len(s) THEN SubSeq(s, i, i) ELSE ""

\* s.startsWith(p, i - 1)
StartsWithAt(s, p, i) ==
    /\ i >= 1
    /\ i + Len(p) - 1 <= Len(s)
    /\ SubSeq(s, i, i + Len(p) - 1) = p

\* s.indexOf(p, from - 1) + 1: first position >= from where p occurs, 0 if none
IndexOf(s, p, from) ==
    LET hits == {i \in from..(Len(s) - Len(p) + 1) : StartsWithAt(s, p, i)}
    IN  IF hits = {} THEN 0 ELSE CHOOSE i \in hits : \A j \in hits : i <= j

\* s.lastIndexOf(p) + 1
LastIndexOf(s, p) ==
    LET hits == {i \in 1..(Len(s) - Len(p) + 1) : StartsWithAt(s, p, i)}
    IN  IF hits = {} THEN 0 ELSE CHOOSE i \in hits : \A j \in hits : i >= j

\* s.includes(p)
Includes(s, p) == IndexOf(s, p, 1) # 0

\* s.replace(p, r) with a string pattern: the first occurrence only
ReplaceFirst(s, p, r) ==
    LET i == IndexOf(s, p, 1)
    IN  IF i = 0 THEN s
        ELSE SubSeq(s, 1, i - 1) \o r \o SubSeq(s, i + Len(p), Len(s))

\* s.split(p).join(r): every occurrence, left to right, not overlapping
RECURSIVE SplitJoin(_, _, _)
SplitJoin(s, p, r) ==
    LET i == IndexOf(s, p, 1)
    IN  IF i = 0 \/ Len(p) = 0 THEN s
        ELSE SubSeq(s, 1, i - 1) \o r \o SplitJoin(SubSeq(s, i + Len(p), Len(s)), p, r)

\* one character of s.toLowerCase()
LowerChar(c) ==
    LET i == IndexOf(UpperCase, c, 1)
    IN  IF Len(c) = 1 /\ i # 0 THEN SubSeq(LowerCase, i, i) ELSE c

\* s.toLowerCase()
RECURSIVE ToLowerCase(_)
ToLowerCase(s) ==
    IF Len(s) = 0 THEN s ELSE LowerChar(Head(s)) \o ToLowerCase(Tail(s))

\* s.trim()
RECURSIVE TrimStart(_)
TrimStart(s) ==
    IF Len(s) > 0 /\ Head(s) \in WhiteSpace THEN TrimStart(Tail(s)) ELSE s

RECURSIVE TrimEnd(_)
TrimEnd(s) ==
    IF Len(s) > 0 /\ CharAt(s, Len(s)) \in WhiteSpace
    THEN TrimEnd(SubSeq(s, 1, Len(s) - 1)) ELSE s

Trim(s) == TrimEnd(TrimStart(s))

\* last position of the run of characters satisfying "not in stop" from i on
\* (i - 1 when the run is empty)
RECURSIVE RunEnd(_, _, _)
RunEnd(s, i, stop) ==
    IF i <= Len(s) /\ CharAt(s, i) \notin stop THEN RunEnd(s, i + 1, stop) ELSE i - 1

\* last position of the run of decimal digits from i on (i - 1 when empty)
RECURSIVE DigitsEnd(_, _)
DigitsEnd(s, i) ==
    IF i <= Len(s) /\ CharAt(s, i) \in Digits THEN DigitsEnd(s, i + 1) ELSE i - 1

DigitValue(c) ==
    CASE c = "0" -> 0 [] c = "1" -> 1 [] c = "2" -> 2 [] c = "3" -> 3
      [] c = "4" -> 4 [] c = "5" -> 5 [] c = "6" -> 6 [] c = "7" -> 7
      [] c = "8" -> 8 [] c = "9" -> 9

\* parseInt(s, 10) of a string of decimal digits
RECURSIVE ParseInt(_)
ParseInt(s) ==
    IF Len(s) = 0 THEN 0
    ELSE 10 * ParseInt(SubSeq(s, 1, Len(s) - 1)) + DigitValue(CharAt(s, Len(s)))

\* `${i}` of a non-negative integer
RECURSIVE IntToString(_)
IntToString(n) ==
    LET d == SubSeq("0123456789", (n % 10) + 1, (n % 10) + 1)
    IN  IF n < 10 THEN d ELSE IntToString(n \div 10) \o d

(***************************************************************************)
(* audio-utils: extractAudioWikilinks.                                      *)
(***************************************************************************)
AUDIO_EXTENSIONS == {"mp3", "wav", "ogg", "m4a", "flac", "aac"}

\* s.split(sep)[0]
SplitFirst(s, sep) ==
    LET i == IndexOf(s, sep, 1)
    IN  IF i = 0 THEN s ELSE SubSeq(s, 1, i - 1)

\* audioPath.split('.').pop()
AfterLastDot(path) ==
    LET i == LastIndexOf(path, ".")
    IN  IF i = 0 THEN path ELSE SubSeq(path, i + 1, Len(path))

\* the extension test applied to the inside of an embed
IsAudioPath(inner) ==
    LET ext == ToLowerCase(AfterLastDot(Trim(SplitFirst(inner, "|"))))
    IN  Len(ext) > 0 /\ ext \in AUDIO_EXTENSIONS

\* /!\[\[([^\]]+)\]\]/ tried at position i: the position of the match's last
\* character, 0 when the expression does not match at i
WikilinkMatchEnd(s, i) ==
    LET e == RunEnd(s, i + 3, {"]"})
    IN  IF StartsWithAt(s, "![[", i) /\ e >= i + 3 /\ StartsWithAt(s, "]]", e + 1)
        THEN e + 2 ELSE 0

\* the exec loop of extractAudioWikilinks from position i on
RECURSIVE ExtractAudioFrom(_, _)
ExtractAudioFrom(s, i) ==
    IF i > Len(s) THEN <<>>
    ELSE LET e == WikilinkMatchEnd(s, i)
         IN  IF e = 0 THEN ExtractAudioFrom(s, i + 1)
             ELSE IF IsAudioPath(SubSeq(s, i + 3, e - 2))
                  THEN <<SubSeq(s, i, e)>> \o ExtractAudioFrom(s, e + 1)
                  ELSE ExtractAudioFrom(s, e + 1)

extractAudioWikilinks(markdown) == ExtractAudioFrom(markdown, 1)

(***************************************************************************)
(* AIQuizGenerator: the placeholder protocol [AUDIO:<cardId>:<index>].      *)
(***************************************************************************)
\* extractAudioMetadata: metadata[card.id] = {front, back}; a later card with
\* the same id overwrites an earlier one
extractAudioMetadata(cs) ==
    [id \in {cs[i].id : i \in 1..Len(cs)} |->
        LET last == CHOOSE i \in 1..Len(cs) :
                        cs[i].id = id /\ \A j \in 1..Len(cs) : cs[j].id = id => j <= i
        IN  [front |-> extractAudioWikilinks(cs[last].front),
             back  |-> extractAudioWikilinks(cs[last].back)]]

\* the for loop of replaceAudioWithPlaceholders from index i on
RECURSIVE ReplaceAudioFrom(_, _, _, _)
ReplaceAudioFrom(result, audioWikilinks, cardId, i) ==
    IF i >= Len(audioWikilinks) THEN result
    ELSE ReplaceAudioFrom(
             ReplaceFirst(result, audioWikilinks[i + 1],
                          "[AUDIO:" \o cardId \o ":" \o IntToString(i) \o "]"),
             audioWikilinks, cardId, i + 1)

replaceAudioWithPlaceholders(markdown, audioWikilinks, cardId) ==
    ReplaceAudioFrom(markdown, audioWikilinks, cardId, 0)

\* /\[AUDIO:([^[]+):(\d+)\]/ tried at position i.  The greedy group ([^[]+)
\* first takes every character up to the next "[" and is then shortened until
\* ":digits]" follows it, so the match ends at the LAST ":digits]" before the
\* next "[".  idEnd is the last position of group 1, 0 when there is no match.
PlaceholderIdEnd(s, i) ==
    LET r    == RunEnd(s, i + 7, {"["})
        ends == {k \in (i + 7)..r :
                    /\ CharAt(s, k + 1) = ":"
                    /\ DigitsEnd(s, k + 2) >= k + 2
                    /\ CharAt(s, DigitsEnd(s, k + 2) + 1) = "]"}
    IN  IF StartsWithAt(s, "[AUDIO:", i) /\ ends # {}
        THEN CHOOSE k \in ends : \A j \in ends : k >= j
        ELSE 0

\* the exec loop over the text: the matches in order, each with match[0],
\* match[1] and parseInt(match[2], 10)
RECURSIVE PlaceholderMatchesFrom(_, _)
PlaceholderMatchesFrom(s, i) ==
    IF i > Len(s) THEN <<>>
    ELSE LET k == PlaceholderIdEnd(s, i)
             d == DigitsEnd(s, k + 2)
         IN  IF k = 0 THEN PlaceholderMatchesFrom(s, i + 1)
             ELSE <<[placeholder |-> SubSeq(s, i, d + 1),
                     cardId      |-> SubSeq(s, i + 7, k),
                     index       |-> ParseInt(SubSeq(s, k + 2, d))]>>
                  \o PlaceholderMatchesFrom(s, d + 2)

PlaceholderMatches(s) == PlaceholderMatchesFrom(s, 1)

\* Property names every plain object inherits from Object.prototype: for these
\* audioMetadata[cardId] is a function or object that has neither front nor back
ObjectPrototypeKeys ==
    {"constructor", "toString", "valueOf", "hasOwnProperty", "isPrototypeOf",
     "propertyIsEnumerable", "toLocaleString", "__proto__"}

\* audioMetadata[cardId]: "own", "inherited" or "undefined"
MetadataKind(metadata, cardId) ==
    IF cardId \in DOMAIN metadata THEN "own"
    ELSE IF cardId \in ObjectPrototypeKeys THEN "inherited"
    ELSE "undefined"

\* the loop "for (const match of matches)" of restoreAudioInText from the
\* n-th match on; threw = TRUE is the TypeError of spreading metadata.front
\* when it is undefined
RECURSIVE RestoreMatchesFrom(_, _, _, _)
RestoreMatchesFrom(result, matches, n, metadata) ==
    IF n > Len(matches) THEN [threw |-> FALSE, value |-> result]
    ELSE LET m    == matches[n]
             kind == MetadataKind(metadata, m.cardId)
         IN  IF kind = "undefined"
             THEN RestoreMatchesFrom(result, matches, n + 1, metadata)
             ELSE IF kind = "inherited"
             THEN [threw |-> TRUE, value |-> ""]
             ELSE LET allAudio == metadata[m.cardId].front \o metadata[m.cardId].back
                  IN  IF m.index < Len(allAudio)
                      THEN RestoreMatchesFrom(
                               SplitJoin(result, m.placeholder, allAudio[m.index + 1]),
                               matches, n + 1, metadata)
                      ELSE RestoreMatchesFrom(result, matches, n + 1, metadata)

restoreAudioInText(t, metadata) ==
    RestoreMatchesFrom(t, PlaceholderMatches(t), 1, metadata)

(***************************************************************************)
(* JavaScript values of the fields of a question.                           *)
(***************************************************************************)
JsUndefined == [t |-> "undefined", v |-> "", keys |-> <<>>, items |-> <<>>]
JsNull == [t |-> "null", v |-> "", keys |-> <<>>, items |-> <<>>]
JsString(s) == [t |-> "string", v |-> s, keys |-> <<>>, items |-> <<>>]
JsNumber(digits) == [t |-> "number", v |-> digits, keys |-> <<>>, items |-> <<>>]
JsBoolean(word) == [t |-> "boolean", v |-> word, keys |-> <<>>, items |-> <<>>]
JsArray(xs) == [t |-> "array", v |-> "", keys |-> <<>>, items |-> xs]
JsObject(ks, xs) == [t |-> "object", v |-> "", keys |-> ks, items |-> xs]

\* if (x): undefined, null, "", 0 and false are falsy
Truthy(x) ==
    CASE x.t \in {"undefined", "null"} -> FALSE
      [] x.t = "string" -> Len(x.v) > 0
      [] x.t = "number" -> \E k \in 1..RunEnd(x.v, 1, {"e", "E"}) :
                               CharAt(x.v, k) \in Digits \ {"0"}
      [] x.t = "boolean" -> x.v = "true"
      [] OTHER -> TRUE

\* x[key] of a value that is neither undefined nor null: a member of an
\* object (the last one with the key), an element or the length of an array,
\* the length of a string, else undefined
GetProp(x, key) ==
    LET hits  == {k \in 1..Len(x.keys) : x.keys[k] = key}
        index == Len(key) > 0 /\ DigitsEnd(key, 1) = Len(key)
    IN  CASE x.t = "object" /\ hits # {} -> x.items[CHOOSE k \in hits : \A j \in hits : j <= k]
          [] x.t = "array" /\ key = "length" -> JsNumber(IntToString(Len(x.items)))
          [] x.t = "array" /\ index /\ ParseInt(key) < Len(x.items) -> x.items[ParseInt(key) + 1]
          [] x.t = "string" /\ key = "length" -> JsNumber(IntToString(Len(x.v)))
          [] x.t = "string" /\ index /\ ParseInt(key) < Len(x.v) -> JsString(CharAt(x.v, ParseInt(key) + 1))
          [] OTHER -> JsUndefined

\* x.k1.k2...: the value, or the TypeError of reading a property of undefined
\* or null
RECURSIVE ReadPath(_, _)
ReadPath(x, path) ==
    IF Len(path) = 0 THEN [threw |-> FALSE, value |-> x]
    ELSE IF x.t \in {"undefined", "null"} THEN [threw |-> TRUE, value |-> JsUndefined]
    ELSE ReadPath(GetProp(x, Head(path)), Tail(path))

\* a QuizQuestion: the id stands for the generated `q-<time>-<random>`
Question(n, type, prompt, options, correctAnswer, explanation) ==
    [id |-> n, type |-> type, prompt |-> prompt, options |-> options,
     correctAnswer |-> correctAnswer, explanation |-> explanation,
     sourceCardId |-> JsUndefined]

\* String(x), as RegExp.prototype.exec sees its argument; an array is its
\* elements joined with commas, undefined and null elements as empty strings
RECURSIVE ToStringForExec(_), JoinItems(_, _)
ToStringForExec(x) ==
    CASE x.t = "undefined" -> "undefined"
      [] x.t = "null" -> "null"
      [] x.t = "object" -> "[object Object]"
      [] x.t = "array" -> JoinItems(x.items, 1)
      [] OTHER -> x.v

JoinItems(items, n) ==
    LET item == IF items[n].t \in {"undefined", "null"} THEN ""
                ELSE ToStringForExec(items[n])
    IN  IF n > Len(items) THEN ""
        ELSE IF n = Len(items) THEN item
        ELSE item \o "," \o JoinItems(items, n + 1)

(***************************************************************************)
(* The vault, audio-utils.resolveAudioPath and AudioTranscriptionService.   *)
(***************************************************************************)
\* what a successful transcription request answers for the files of the
\* pipeline's cards: result.text
TranscriptText == "spoken words"

\* the audio files of the vault: path -> stat (mtime in ticks, size in MB) and
\* the words spoken in the file, which a successful transcription request
\* answers.  Two folders hold a file of the same name in a subfolder
VaultFiles ==
    ("a.mp3" :> [mtime |-> 2, size |-> 1, speech |-> TranscriptText])
        @@ ("media/b.wav" :> [mtime |-> 2, size |-> 30, speech |-> TranscriptText])
        @@ ("media/d.mp3" :> [mtime |-> 2, size |-> 1, speech |-> TranscriptText])
        @@ ("en/audio/clip.mp3" :> [mtime |-> 2, size |-> 1, speech |-> "good morning"])
        @@ ("fr/audio/clip.mp3" :> [mtime |-> 2, size |-> 1, speech |-> "bonjour"])

\* const maxSize = 25 * 1024 * 1024, in MB
maxSize == 25

\* app.metadataCache.getFirstLinkpathDest(path, sourcePath): the file with
\* that path, else a file with that name in some folder; "" when there is none
LinkpathDest(path) ==
    LET named == {f \in DOMAIN VaultFiles : SubSeq(f, LastIndexOf(f, "/") + 1, Len(f)) = path}
    IN  IF path \in DOMAIN VaultFiles THEN path
        ELSE IF named # {} THEN CHOOSE f \in named : TRUE
        ELSE ""

\* normalizePath: the parts of the path without "", "." and with ".." applied
RECURSIVE NormalizeParts(_, _)
NormalizeParts(path, result) ==
    LET part == SplitFirst(path, "/")
        rest == SubSeq(path, Len(part) + 2, Len(path))
        next == IF part \in {".", ""} THEN result
                ELSE IF part = ".." THEN SubSeq(result, 1, Len(result) - 1)
                ELSE Append(result, part)
    IN  IF Len(part) = Len(path) THEN next ELSE NormalizeParts(rest, next)

\* result.join('/')
RECURSIVE JoinParts(_)
JoinParts(parts) ==
    IF Len(parts) = 0 THEN ""
    ELSE IF Len(parts) = 1 THEN parts[1]
    ELSE parts[1] \o "/" \o JoinParts(Tail(parts))

normalizePath(path) == JoinParts(NormalizeParts(path, <<>>))

\* resolveAudioPath: the vault path of the file, "" for null
resolveAudioPath(path, sourcePath) ==
    LET p            == SplitFirst(SplitFirst(path, "#"), "?")
        sourceDir    == SubSeq(sourcePath, 1, LastIndexOf(sourcePath, "/") - 1)
        relativePath == normalizePath(sourceDir \o "/" \o p)
    IN  IF StartsWithAt(p, "http://", 1) \/ StartsWithAt(p, "https://", 1) THEN p
        ELSE IF LinkpathDest(p) # "" THEN LinkpathDest(p)
        ELSE IF relativePath \in DOMAIN VaultFiles THEN relativePath
        ELSE ""

\* extractAudioPath: the trimmed path of the first embed, "" for null
extractAudioPath(wikilink) ==
    LET starts == {i \in 1..Len(wikilink) : WikilinkMatchEnd(wikilink, i) # 0}
        i      == CHOOSE i \in starts : \A j \in starts : i <= j
    IN  IF starts = {} THEN ""
        ELSE Trim(SplitFirst(SubSeq(wikilink, i + 3, WikilinkMatchEnd(wikilink, i) - 2), "|"))

\* getCachedTranscription(audioPath) on the memory cache mem and the cache
\* file disk: where a record was found ("memory", "disk" or "none"), its
\* fileModifiedTime, whether it is returned, its text, and the memory cache
\* afterwards.  A fileModifiedTime of 0 stands for a missing one.  The file
\* whose mtime is compared is getAbstractFileByPath(audioPath), the path as
\* the reference writes it.
getCachedTranscription(audioPath, mem, disk) ==
    LET isFile == audioPath \in DOMAIN VaultFiles
        answer(from, cached, hit, c) ==
            [from |-> from, fileModifiedTime |-> cached.fileModifiedTime, hit |-> hit,
             text |-> IF hit THEN cached.text ELSE "", cache |-> c]
        promote(cached) == answer("disk", cached, TRUE, (audioPath :> cached) @@ mem)
    IN  IF audioPath \in DOMAIN mem
        THEN IF /\ mem[audioPath].fileModifiedTime # 0
                /\ isFile
                /\ VaultFiles[audioPath].mtime > mem[audioPath].fileModifiedTime
             THEN answer("memory", mem[audioPath], FALSE,
                         [q \in DOMAIN mem \ {audioPath} |-> mem[q]])
             ELSE answer("memory", mem[audioPath], TRUE, mem)
        ELSE IF disk.exists /\ audioPath \in DOMAIN disk.entries
        THEN IF isFile /\ disk.entries[audioPath].fileModifiedTime # 0
             THEN IF VaultFiles[audioPath].mtime <= disk.entries[audioPath].fileModifiedTime
                  THEN promote(disk.entries[audioPath])
                  ELSE answer("disk", disk.entries[audioPath], FALSE, mem)
             ELSE promote(disk.entries[audioPath])
        ELSE [from |-> "none", fileModifiedTime |-> 0, hit |-> FALSE, text |-> "", cache |-> mem]

\* transcribeAudio(audioPath, sourceCardPath) of a service with the settings
\* voice, the memory cache mem and the cache file disk, up to the request of
\* its provider arm: either it returns (null, or the cached text) or it sends
\* the request for the file it resolved.  lookup.from is "skipped" when the
\* cache is not asked.
transcribeAudio(audioPath, sourcePath, voice, mem, disk) ==
    LET skipped == [from |-> "skipped", fileModifiedTime |-> 0, hit |-> FALSE, text |-> "",
                    cache |-> mem]
        null(found) == [step |-> "return", result |-> FALSE, text |-> "", file |-> "",
                        cache |-> found.cache, lookup |-> found]
        send(found, resolvedPath) ==
            IF resolvedPath \notin DOMAIN VaultFiles THEN null(found)
            ELSE IF VaultFiles[resolvedPath].size > maxSize THEN null(found)
            ELSE IF voice.provider \notin {"openai-whisper", "google-speech"} THEN null(found)
            ELSE IF voice.apiKey = "" THEN null(found)
            ELSE [step |-> "request", result |-> FALSE, text |-> "", file |-> resolvedPath,
                  cache |-> found.cache, lookup |-> found]
        after(found) ==
            IF found.hit
            THEN [step |-> "return", result |-> TRUE, text |-> found.text, file |-> "",
                  cache |-> found.cache, lookup |-> found]
            ELSE send(found, resolveAudioPath(audioPath, sourcePath))
    IN  IF ~voice.enabled THEN null(skipped)
        ELSE IF voice.cacheTranscriptions
             THEN after(getCachedTranscription(audioPath, mem, disk))
             ELSE after(skipped)

\* cacheTranscription(audioPath, result, fileModifiedTime) up to its first
\* await: this.cache[audioPath] = cached
cacheTranscription(audioPath, cached, mem) == (audioPath :> cached) @@ mem

\* the rest of cacheTranscription, the saving to disk: the file is read
\* (a failing read starts from {}), the entry set and the file written; a
\* failing write is caught and leaves the file as it was
SaveToDisk(audioPath, cached, disk, io) ==
    IF io = "write-fail" THEN disk
    ELSE [exists  |-> TRUE,
          entries |-> (audioPath :> cached)
                          @@ (IF disk.exists /\ io # "read-fail" THEN disk.entries ELSE <<>>)]

\* getCacheStats()
getCacheStats(mem) == [size |-> Cardinality(DOMAIN mem), entries |-> DOMAIN mem]

\* the transcribeAudio calls transcribeCardAudio makes, in order: for each
\* card its front references, then its back references
RECURSIVE TranscriptionJobs(_, _, _)
TranscriptionJobs(cs, metadata, i) ==
    LET m == metadata[cs[i].id]
        side(links, name) ==
            [k \in 1..Len(links) |-> [card |-> i, side |-> name, wikilink |-> links[k]]]
    IN  IF i > Len(cs) THEN <<>>
        ELSE side(m.front, "front") \o side(m.back, "back")
                 \o TranscriptionJobs(cs, metadata, i + 1)

\* transcribeCardAudio pushing the text of every call, null or not
AudioTranscriptsWithFailed(cs, jobs, results) ==
    LET done(i, name) == SelectSeq([k \in 1..Len(results) |-> k],
                             LAMBDA k : /\ jobs[results[k].job].card = i
                                        /\ jobs[results[k].job].side = name)
        texts(i, name) == [n \in 1..Len(done(i, name)) |-> results[done(i, name)[n]].text]
        with == {i \in 1..Len(cs) : Len(done(i, "front")) > 0 \/ Len(done(i, "back")) > 0}
    IN  [id \in {cs[i].id : i \in with} |->
            LET last == CHOOSE i \in with :
                            cs[i].id = id /\ \A j \in with : cs[j].id = id => j <= i
            IN  [front |-> texts(last, "front"), back |-> texts(last, "back")]]

\* the object transcribeCardAudio returns once every job has its result:
\* card id -> {front, back}, for the cards with at least one transcription
AudioTranscripts(cs, jobs, results) ==
    LET done(i, name) == SelectSeq([k \in 1..Len(results) |-> k],
                             LAMBDA k : /\ jobs[results[k].job].card = i
                                        /\ jobs[results[k].job].side = name
                                        /\ results[k].result)
        texts(i, name) == [n \in 1..Len(done(i, name)) |-> results[done(i, name)[n]].text]
        has(i) == Len(done(i, "front")) > 0 \/ Len(done(i, "back")) > 0
        with == {i \in 1..Len(cs) : has(i)}
    IN  [id \in {cs[i].id : i \in with} |->
            LET last == CHOOSE i \in with :
                            cs[i].id = id /\ \A j \in with : cs[j].id = id => j <= i
            IN  [front |-> texts(last, "front"), back |-> texts(last, "back")]]

\* text.replace(/\[AUDIO:[^\]]+\]/g, '')
RECURSIVE RemovePlaceholders(_)
RemovePlaceholders(s) ==
    LET i == IndexOf(s, "[AUDIO:", 1)
        e == RunEnd(s, i + 7, {"]"})
    IN  IF i = 0 THEN s
        ELSE IF e >= i + 7 /\ CharAt(s, e + 1) = "]"
             THEN SubSeq(s, 1, i - 1) \o RemovePlaceholders(SubSeq(s, e + 2, Len(s)))
             ELSE SubSeq(s, 1, i) \o RemovePlaceholders(SubSeq(s, i + 1, Len(s)))

\* transcriptions.map((t, i) => `[Audio ${i + 1}]: ${t}`).join('\n') from the
\* i-th transcription on
RECURSIVE NumberedTranscriptions(_, _)
NumberedTranscriptions(ts, i) ==
    LET line == "[Audio " \o IntToString(i) \o "]: " \o ts[i]
    IN  IF i = Len(ts) THEN line ELSE line \o "\n" \o NumberedTranscriptions(ts, i + 1)

addTranscriptionContext(t, transcriptions) ==
    LET transcriptionText == IF Len(transcriptions) = 1 THEN transcriptions[1]
                             ELSE NumberedTranscriptions(transcriptions, 1)
        textWithoutPlaceholders == Trim(RemovePlaceholders(t))
        primary == "**Primary Content (Audio):** \"" \o transcriptionText \o "\""
    IN  IF Len(transcriptions) = 0 THEN t
        ELSE IF textWithoutPlaceholders # ""
             THEN primary \o "\n\n**Additional Context (Text):** " \o textWithoutPlaceholders
             ELSE primary

(***************************************************************************)
(* Inputs: texts built from at most n segments of a set.                    *)
(***************************************************************************)
RECURSIVE Concat(_)
Concat(ss) == IF Len(ss) = 0 THEN "" ELSE Head(ss) \o Concat(Tail(ss))

TextsOf(segs, n) == {Concat(f) : f \in UNION {[1..k -> segs] : k \in 0..n}}

(***************************************************************************)
(* CodecSpec: one card goes through the indexing and encoding steps of      *)
(* generateQuestions, and restoreAudioInText is applied to what was encoded.*)
(***************************************************************************)
CardIds == {"c1", "n.md:L1"}
CardSegs == {"Q ", "![[a.mp3]]", "![[b.wav]]", "![[i.png]]"}

CodecCards ==
    {[id |-> id, front |-> f, back |-> b, file |-> "n.md"] :
        id \in CardIds, f \in TextsOf(CardSegs, MaxSegs), b \in TextsOf(CardSegs, MaxSegs)}

NoText == [threw |-> FALSE, value |-> ""]
NoQuestions == [threw |-> FALSE, value |-> <<>>]

\* the values of the variables an operation has not reached
CodecIdle == cardData = <<>> /\ decoded = <<>>
RestoreIdle == text = "" /\ restoredText = NoText
QuestionIdle ==
    questions = <<>> /\ questionsWithAudio = NoQuestions /\ deduplicatedQuestions = NoQuestions
CleanIdle == content = "" /\ cleanedContent = ""
UtilIdle ==
    embedText = "" /\ strippedText = "" /\ childDeck = "" /\ parentDeck = "" /\ isChild = FALSE

NoVoice == [enabled |-> FALSE, provider |-> "openai-whisper", apiKey |-> "",
            cacheTranscriptions |-> FALSE]
NoDiskCache == [exists |-> FALSE, entries |-> <<>>]
\* no loadCache under way
NoCacheLoad == [pending |-> FALSE, content |-> <<>>]
\* no getCachedTranscription call made yet
NoLookup == [audioPath |-> "", sourcePath |-> "", from |-> "none", fileModifiedTime |-> 0,
             hit |-> FALSE, text |-> ""]

NoResponse == [status |-> "none", httpStatus |-> 0, message |-> "", json |-> JsUndefined]
Pending == [status |-> "pending", error |-> ""]

\* a generator with voice AI off that has not called its provider
PipeIdle ==
    /\ settings = [enabled |-> TRUE, provider |-> "openai", apiKey |-> "sk", baseUrl |-> "",
                   voiceAI |-> NoVoice]
    /\ cache = <<>> /\ diskCache = NoDiskCache /\ cacheLoad = NoCacheLoad
    /\ inFlight = <<>> /\ lookup = NoLookup
    /\ transcripts = <<>> /\ requests = <<>>
    /\ response = NoResponse /\ outcome = Pending

CodecInit ==
    /\ pc = "start"
    /\ cards \in {<<c>> : c \in CodecCards}
    /\ audioMetadata = <<>>
    /\ UtilIdle
    /\ CodecIdle /\ RestoreIdle /\ QuestionIdle /\ CleanIdle /\ PipeIdle

\* generateQuestions: const audioMetadata = this.extractAudioMetadata(cards)
IndexAudio ==
    /\ pc = "start"
    /\ audioMetadata' = extractAudioMetadata(cards)
    /\ pc' = "indexed"
    /\ UNCHANGED <<utilVars, cards, codecVars, restoreVars, questionVars, cleanVars, pipeVars>>

\* this.transcriptionService && this.settings.voiceAI?.enabled: the constructor
\* builds the service exactly when voice AI is enabled
TranscriptionActive == settings.voiceAI.enabled

\* the transcribeAudio calls this invocation has to make
Jobs == TranscriptionJobs(cards, audioMetadata, 1)

\* generateQuestions: the element cards.map builds for one card
EncodeCard(card, metadata, audioTranscripts) ==
    LET hasTranscriptions == card.id \in DOMAIN audioTranscripts
        frontText == replaceAudioWithPlaceholders(card.front, metadata[card.id].front, card.id)
        backText  == replaceAudioWithPlaceholders(card.back, metadata[card.id].back, card.id)
    IN  [id    |-> card.id,
         front |-> IF hasTranscriptions
                   THEN addTranscriptionContext(frontText, audioTranscripts[card.id].front)
                   ELSE frontText,
         back  |-> IF hasTranscriptions
                   THEN addTranscriptionContext(backText, audioTranscripts[card.id].back)
                   ELSE backText,
         hasAudioTranscription |-> hasTranscriptions]

\* generateQuestions: const cardData = cards.map(...), reached once
\* transcribeCardAudio has returned (or at once, without voice AI)
PrepareCardData ==
    /\ pc = "indexed"
    /\ TranscriptionActive => Len(transcripts) = Len(Jobs)
    /\ cardData' =
          LET audioTranscripts == IF TranscriptionActive
                                  THEN AudioTranscripts(cards, Jobs, transcripts) ELSE <<>>
          IN  [i \in 1..Len(cards) |-> EncodeCard(cards[i], audioMetadata, audioTranscripts)]
    /\ pc' = "encoded"
    /\ UNCHANGED <<utilVars, cards, audioMetadata, decoded, restoreVars, questionVars, cleanVars,
                   pipeVars>>

\* restoreAudioInText applied to each encoded field
DecodeCardData ==
    /\ pc = "encoded"
    /\ decoded' = [i \in 1..Len(cardData) |->
                      [front |-> restoreAudioInText(cardData[i].front, audioMetadata),
                       back  |-> restoreAudioInText(cardData[i].back, audioMetadata)]]
    /\ pc' = "decoded"
    /\ UNCHANGED <<utilVars, cards, audioMetadata, cardData, restoreVars, questionVars, cleanVars,
                   pipeVars>>

CodecNext == IndexAudio \/ PrepareCardData \/ DecodeCardData

CodecSpec == CodecInit /\ [][CodecNext]_vars

\* C1: round trip -- for every card and each of its text fields, decoding the
\* encoded field with restoreAudioInText returns the original field text.
C1_RoundTrip ==
    pc = "decoded" =>
        \A i \in 1..Len(cards) :
            /\ decoded[i].front = [threw |-> FALSE, value |-> cards[i].front]
            /\ decoded[i].back = [threw |-> FALSE, value |-> cards[i].back]

\* the indices of the tokens of card id found in a text, in document order
TokenIndices(s, id) ==
    LET ms == SelectSeq(PlaceholderMatches(s), LAMBDA m : m.cardId = id)
    IN  [k \in 1..Len(ms) |-> ms[k].index]

\* C2: bijective indexing -- the tokens written into a card's front and back
\* carry the indices 0..N-1 of the combined reference list (front references,
\* then back references), each exactly once, and restoreAudioInText maps
\* token (cardId, i) to the i-th reference of that list.
C2_BijectiveIndexing ==
    pc \in {"encoded", "decoded"} =>
        \A i \in 1..Len(cards) :
            LET id       == cards[i].id
                allAudio == audioMetadata[id].front \o audioMetadata[id].back
                written  == TokenIndices(cardData[i].front, id)
                                \o TokenIndices(cardData[i].back, id)
            IN  /\ written = [k \in 1..Len(allAudio) |-> k - 1]
                /\ \A k \in 1..Len(allAudio) :
                       restoreAudioInText(
                           "[AUDIO:" \o id \o ":" \o IntToString(k - 1) \o "]",
                           audioMetadata).value = allAudio[k]

(***************************************************************************)
(* RestoreSpec: restoreAudioInText applied to a text of the provider.       *)
(***************************************************************************)
RestoreCards ==
    <<[id |-> "c1", front |-> "Q ![[a.mp3]]", back |-> "![[b.wav]]", file |-> "n.md"],
      [id |-> "n.md:L1", front |-> "![[c.ogg]]", back |-> "A", file |-> "n.md"]>>

TokenSegs ==
    {"Listen ", "[AUDIO:c1:0]", "[AUDIO:c1:1]", "[AUDIO:n.md:L1:0]",
     "[AUDIO:c1:2]", "[AUDIO:zz:0]", " 1:2]", "[AUDIO:constructor:0]"}

RestoreInit ==
    /\ pc = "restore"
    /\ cards = RestoreCards
    /\ audioMetadata = extractAudioMetadata(RestoreCards)
    /\ UtilIdle
    /\ text \in TextsOf(TokenSegs, MaxSegs)
    /\ restoredText = NoText
    /\ CodecIdle /\ QuestionIdle /\ CleanIdle /\ PipeIdle

RestoreText ==
    /\ pc = "restore"
    /\ restoredText' = restoreAudioInText(text, audioMetadata)
    /\ pc' = "restored"
    /\ UNCHANGED <<utilVars, cards, audioMetadata, text, codecVars, questionVars, cleanVars, pipeVars>>

RestoreNext == RestoreText

RestoreSpec == RestoreInit /\ [][RestoreNext]_vars

\* the tokens [AUDIO:<id>:<n>] with <id> a card of the metadata and n below
\* that card's combined reference count, each with the reference it stands for
ResolvableTokens(metadata) ==
    UNION {LET allAudio == metadata[id].front \o metadata[id].back
           IN  {[token |-> "[AUDIO:" \o id \o ":" \o IntToString(n - 1) \o "]",
                 audio |-> allAudio[n]] : n \in 1..Len(allAudio)} :
           id \in DOMAIN metadata}

\* the text with every resolvable token, wherever it occurs, replaced by its
\* reference (the tokens are scanned left to right)
RECURSIVE DecodeAll(_, _)
DecodeAll(s, metadata) ==
    IF Len(s) = 0 THEN s
    ELSE LET here == {r \in ResolvableTokens(metadata) : StartsWithAt(s, r.token, 1)}
         IN  IF here = {} THEN Head(s) \o DecodeAll(Tail(s), metadata)
             ELSE LET r == CHOOSE x \in here : TRUE
                  IN  r.audio \o DecodeAll(SubSeq(s, Len(r.token) + 1, Len(s)), metadata)

\* the texts obtained by replacing some (any subset) of the resolvable token
\* occurrences by their references and leaving everything else as it is
RECURSIVE DecodeSome(_, _)
DecodeSome(s, metadata) ==
    IF Len(s) = 0 THEN {s}
    ELSE LET here == {r \in ResolvableTokens(metadata) : StartsWithAt(s, r.token, 1)}
         IN  {Head(s) \o rest : rest \in DecodeSome(Tail(s), metadata)}
             \cup UNION {{r.audio \o rest :
                            rest \in DecodeSome(SubSeq(s, Len(r.token) + 1, Len(s)), metadata)} :
                         r \in here}

\* C3: restoreAudioInText replaces every occurrence of a resolvable token by
\* the reference it stands for, whatever precedes or follows the token, so
\* that no resolvable token remains in the text it returns.
C3_EveryResolvableTokenRestored ==
    (pc = "restored" /\ ~restoredText.threw) =>
        /\ restoredText.value = DecodeAll(text, audioMetadata)
        /\ \A r \in ResolvableTokens(audioMetadata) : ~Includes(restoredText.value, r.token)

\* C4: restoreAudioInText never fails on an unmatched token: it returns, and
\* what it returns differs from the text only where a resolvable token was
\* replaced by its reference.
C4_UnmatchedTokensUntouched ==
    pc = "restored" =>
        /\ restoredText.threw = FALSE
        /\ restoredText.value \in DecodeSome(text, audioMetadata)

(***************************************************************************)
(* AIQuizGenerator.findSourceCard.                                          *)
(***************************************************************************)
\* s.split(/\s+/) without the empty strings a leading or trailing separator
\* yields (the caller's filter drops them: their length is not above 3)
RECURSIVE SplitWhitespace(_)
SplitWhitespace(s) ==
    LET t == TrimStart(s)
        e == RunEnd(t, 1, WhiteSpace)
    IN  IF Len(t) = 0 THEN <<>>
        ELSE <<SubSeq(t, 1, e)>> \o SplitWhitespace(SubSeq(t, e + 1, Len(t)))

\* the score findSourceCard gives one card
CardScore(prompt, card) ==
    LET promptWords == SelectSeq(SplitWhitespace(ToLowerCase(prompt)), LAMBDA w : Len(w) > 3)
        cardText    == ToLowerCase(card.front \o " " \o card.back)
        matches     == Cardinality({k \in 1..Len(promptWords) : Includes(cardText, promptWords[k])})
        bonus       == IF /\ Includes(prompt, "[AUDIO:")
                          /\ Len(extractAudioWikilinks(card.front \o " " \o card.back)) > 0
                       THEN 2 ELSE 0
    IN  matches + bonus

\* the loop replacing bestMatch also by a card of equal score
RECURSIVE BestMatchLastWins(_, _, _, _)
BestMatchLastWins(prompt, cs, n, best) ==
    IF n > Len(cs) THEN best
    ELSE IF best = 0 \/ CardScore(prompt, cs[n]) >= CardScore(prompt, cs[best])
         THEN BestMatchLastWins(prompt, cs, n + 1, n)
         ELSE BestMatchLastWins(prompt, cs, n + 1, best)

\* the loop over the cards from the n-th on; best is 0 (no bestMatch yet) or
\* the position of the card bestMatch names
RECURSIVE BestMatchFrom(_, _, _, _)
BestMatchFrom(prompt, cs, n, best) ==
    IF n > Len(cs) THEN best
    ELSE IF best = 0 \/ CardScore(prompt, cs[n]) > CardScore(prompt, cs[best])
         THEN BestMatchFrom(prompt, cs, n + 1, n)
         ELSE BestMatchFrom(prompt, cs, n + 1, best)

\* findSourceCard: a card id, undefined, or the TypeError of
\* question.prompt.toLowerCase() when the prompt is no string
findSourceCard(question, cs) ==
    IF question.prompt.t # "string" THEN [threw |-> TRUE, value |-> JsUndefined]
    ELSE LET best == BestMatchFrom(question.prompt.v, cs, 1, 0)
         IN  IF best # 0 /\ CardScore(question.prompt.v, cs[best]) > 0
             THEN [threw |-> FALSE, value |-> JsString(cs[best].id)]
             ELSE [threw |-> FALSE, value |-> JsUndefined]

(***************************************************************************)
(* AIQuizGenerator.restoreAudioInQuestions.                                 *)
(***************************************************************************)
\* the matches of the options, in order
RECURSIVE OptionMatchesFrom(_, _)
OptionMatchesFrom(options, n) ==
    IF n > Len(options) THEN <<>>
    ELSE PlaceholderMatches(ToStringForExec(options[n])) \o OptionMatchesFrom(options, n + 1)

\* placeholderMatches of a question: the prompt's, then each option's
QuestionMatches(question) ==
    PlaceholderMatches(ToStringForExec(question.prompt))
        \o (IF question.options.t = "array"
            THEN OptionMatchesFrom(question.options.items, 1) ELSE <<>>)

\* the keys of cardMatchCount in insertion order: each id at its first match
RECURSIVE FirstSeenIds(_, _)
FirstSeenIds(matches, seen) ==
    IF Len(matches) = 0 THEN <<>>
    ELSE IF Head(matches).cardId \in seen THEN FirstSeenIds(Tail(matches), seen)
         ELSE <<Head(matches).cardId>>
                  \o FirstSeenIds(Tail(matches), seen \cup {Head(matches).cardId})

\* cardMatchCount.get(id)
MatchCount(matches, id) == Cardinality({k \in 1..Len(matches) : matches[k].cardId = id})

\* the loop with "count >= maxCount": among equal counts the last id seen wins
RECURSIVE MostMatchesLastWins(_, _, _, _, _)
MostMatchesLastWins(ids, matches, n, maxCount, sourceCardId) ==
    IF n > Len(ids) THEN sourceCardId
    ELSE IF MatchCount(matches, ids[n]) >= maxCount
         THEN MostMatchesLastWins(ids, matches, n + 1, MatchCount(matches, ids[n]), JsString(ids[n]))
         ELSE MostMatchesLastWins(ids, matches, n + 1, maxCount, sourceCardId)

\* the loop "for (const [cardId, count] of cardMatchCount.entries())"
RECURSIVE MostMatchesFrom(_, _, _, _, _)
MostMatchesFrom(ids, matches, n, maxCount, sourceCardId) ==
    IF n > Len(ids) THEN sourceCardId
    ELSE IF MatchCount(matches, ids[n]) > maxCount
         THEN MostMatchesFrom(ids, matches, n + 1, MatchCount(matches, ids[n]), JsString(ids[n]))
         ELSE MostMatchesFrom(ids, matches, n + 1, maxCount, sourceCardId)

\* restoreAudioInText(x, metadata) of a value that need not be a string: the
\* scan sees String(x); a replacement calls x.split, a TypeError when x is no
\* string, and without a replacement x itself is returned
RestoreValue(x, metadata) ==
    LET result(r) ==
            IF x.t = "string" THEN [threw |-> r.threw, value |-> JsString(r.value)]
            ELSE [threw |-> r.threw \/ r.value # ToStringForExec(x), value |-> x]
    IN  result(restoreAudioInText(ToStringForExec(x), metadata))

\* the callback of questions.map in restoreAudioInQuestions
RestoreQuestion(question, cs, metadata) ==
    LET byCount(matches) ==
            MostMatchesFrom(FirstSeenIds(matches, {}), matches, 1, 0, JsUndefined)
        source(found) ==
            IF Truthy(found) THEN [threw |-> FALSE, value |-> found]
            ELSE findSourceCard(question, cs)
        restored(fallback, prompt, options) ==
            IF \/ (Truthy(question.options) /\ question.options.t # "array")
               \/ fallback.threw
               \/ prompt.threw
               \/ \E n \in 1..Len(options) : options[n].threw
            THEN [threw |-> TRUE, value |-> question]
            ELSE [threw |-> FALSE,
                  value |->
                     [question EXCEPT
                        !.prompt = prompt.value,
                        !.options = IF Truthy(question.options)
                                    THEN JsArray([n \in 1..Len(options) |-> options[n].value])
                                    ELSE JsUndefined,
                        !.sourceCardId =
                            IF Truthy(fallback.value) THEN fallback.value
                            ELSE IF Len(cs) > 0 THEN JsString(cs[1].id) ELSE JsUndefined]]
    IN  restored(source(byCount(QuestionMatches(question))),
                 RestoreValue(question.prompt, metadata),
                 IF question.options.t = "array"
                 THEN [n \in 1..Len(question.options.items) |->
                          RestoreValue(question.options.items[n], metadata)]
                 ELSE <<>>)

\* restoreAudioInQuestions: the mapped list, or the exception of a callback
restoreAudioInQuestions(qs, cs, metadata) ==
    LET settle(mapped) ==
            IF \E n \in 1..Len(qs) : mapped[n].threw
            THEN [threw |-> TRUE, value |-> <<>>]
            ELSE [threw |-> FALSE, value |-> [n \in 1..Len(qs) |-> mapped[n].value]]
    IN  settle([n \in 1..Len(qs) |-> RestoreQuestion(qs[n], cs, metadata)])

(***************************************************************************)
(* AIQuizGenerator.removeDuplicateQuestions.                                *)
(***************************************************************************)
\* s.replace(/\s+/g, ' ')
RECURSIVE CollapseWhitespace(_)
CollapseWhitespace(s) ==
    IF Len(s) = 0 THEN s
    ELSE IF Head(s) \in WhiteSpace
         THEN " " \o CollapseWhitespace(TrimStart(s))
         ELSE Head(s) \o CollapseWhitespace(Tail(s))

\* a normalization that keeps the case of the letters
NormalizePromptKeepCase(prompt) == CollapseWhitespace(Trim(prompt))

\* normalizedPrompt
NormalizePrompt(prompt) == CollapseWhitespace(Trim(ToLowerCase(prompt)))

\* the loop of removeDuplicateQuestions from the n-th question on
RECURSIVE UniqueFrom(_, _, _)
UniqueFrom(qs, n, seen) ==
    IF n > Len(qs) THEN <<>>
    ELSE LET normalizedPrompt == NormalizePrompt(qs[n].prompt.v)
         IN  IF normalizedPrompt \notin seen
             THEN <<qs[n]>> \o UniqueFrom(qs, n + 1, seen \cup {normalizedPrompt})
             ELSE UniqueFrom(qs, n + 1, seen)

\* removeDuplicateQuestions: the unique list, or the TypeError of
\* question.prompt.toLowerCase() when a prompt is no string
removeDuplicateQuestions(qs) ==
    IF \E n \in 1..Len(qs) : qs[n].prompt.t # "string"
    THEN [threw |-> TRUE, value |-> <<>>]
    ELSE [threw |-> FALSE, value |-> UniqueFrom(qs, 1, {})]

(***************************************************************************)
(* AttributionSpec: restoreAudioInQuestions applied to one question of the  *)
(* provider.                                                                *)
(***************************************************************************)
PromptSegs == {"hear ", "[AUDIO:c1:0]", "[AUDIO:n.md:L1:0]", "[AUDIO:zz:1]"}
OptionTexts == {"bell", "[AUDIO:c1:1]", "[AUDIO:n.md:L1:0]", "[AUDIO:zz:1]"}

OptionLists ==
    {JsUndefined} \cup
    {JsArray([k \in DOMAIN f |-> JsString(f[k])]) :
        f \in UNION {[1..k -> OptionTexts] : k \in 0..MaxOptions}}

AttributionInit ==
    /\ pc = "attribute"
    /\ cards = RestoreCards
    /\ audioMetadata = extractAudioMetadata(RestoreCards)
    /\ UtilIdle
    /\ questions \in {<<Question(1, JsString("fill-blank"), JsString(p), o, JsString("bell"), JsUndefined)>> :
                         p \in TextsOf(PromptSegs, MaxSegs), o \in OptionLists}
    /\ questionsWithAudio = NoQuestions
    /\ deduplicatedQuestions = NoQuestions
    /\ CodecIdle /\ RestoreIdle /\ CleanIdle /\ PipeIdle

\* generateQuestions: const questionsWithAudio = this.restoreAudioInQuestions(...);
\* an exception of the call rejects generateQuestions
RestoreQuestions ==
    /\ pc = "attribute"
    /\ questionsWithAudio' = restoreAudioInQuestions(questions, cards, audioMetadata)
    /\ pc' = IF questionsWithAudio'.threw THEN "rejected" ELSE "attributed"
    /\ outcome' = IF questionsWithAudio'.threw
                  THEN [status |-> "rejected", error |-> "TypeError"] ELSE outcome
    /\ UNCHANGED <<utilVars, cards, audioMetadata, questions, deduplicatedQuestions,
                   codecVars, restoreVars, cleanVars, settings, serviceVars,
                   transcripts, requests, response>>

AttributionNext == RestoreQuestions

AttributionSpec == AttributionInit /\ [][AttributionNext]_vars

\* the id that dominates a list of token occurrences: among the ids with the
\* largest number of occurrences, the one whose first occurrence is earliest
DominantId(matches) ==
    LET ids       == {matches[k].cardId : k \in 1..Len(matches)}
        count(id) == Cardinality({k \in 1..Len(matches) : matches[k].cardId = id})
        first(id) == CHOOSE k \in 1..Len(matches) :
                         /\ matches[k].cardId = id
                         /\ \A j \in 1..(k - 1) : matches[j].cardId # id
        top       == {id \in ids : \A o \in ids : count(id) >= count(o)}
    IN  CHOOSE id \in top : \A o \in top : first(id) <= first(o)

\* C6: attribution by placeholder dominance -- a question with at least one
\* placeholder token in its prompt and options gets as sourceCardId the card
\* id with the most token occurrences; among ids with equally many, the one
\* whose first token comes first (prompt before options, options in order).
C6_AttributionByDominance ==
    (pc = "attributed" /\ ~questionsWithAudio.threw) =>
        \A n \in 1..Len(questions) :
            Len(QuestionMatches(questions[n])) > 0 =>
                questionsWithAudio.value[n].sourceCardId
                    = JsString(DominantId(QuestionMatches(questions[n])))

\* a question whose first token names c1 and whose three other tokens name
\* n.md:L1: it is attributed to n.md:L1
C6_Witness ==
    /\ pc = "attributed"
    /\ ~questionsWithAudio.threw
    /\ LET ms == QuestionMatches(questions[1])
           n(id) == Cardinality({k \in 1..Len(ms) : ms[k].cardId = id})
       IN  /\ Len(ms) = 4
           /\ n("n.md:L1") = 3
           /\ n("c1") = 1
           /\ ms[1].cardId = "c1"
           /\ questionsWithAudio.value[1].sourceCardId = JsString("n.md:L1")

(***************************************************************************)
(* DedupeSpec: removeDuplicateQuestions applied to a list of questions.     *)
(***************************************************************************)
DedupePrompts == {"Ab c", " ab c ", "AB  C", "ab\tc", "abc", ""}

DedupeInit ==
    /\ pc = "attributed"
    /\ cards = RestoreCards
    /\ audioMetadata = extractAudioMetadata(RestoreCards)
    /\ UtilIdle
    /\ questions = <<>>
    /\ questionsWithAudio \in
          {[threw |-> FALSE,
            value |-> [k \in DOMAIN f |-> Question(k, JsString("fill-blank"), JsString(f[k]), JsUndefined, JsString("x"),
                                            JsUndefined)]] :
              f \in UNION {[1..k -> DedupePrompts] : k \in 0..MaxQuestions}}
    /\ deduplicatedQuestions = NoQuestions
    /\ CodecIdle /\ RestoreIdle /\ CleanIdle /\ PipeIdle

\* generateQuestions: const deduplicatedQuestions = this.removeDuplicateQuestions(...)
\* and return deduplicatedQuestions
RemoveDuplicates ==
    /\ pc = "attributed"
    /\ deduplicatedQuestions' = removeDuplicateQuestions(questionsWithAudio.value)
    /\ pc' = IF deduplicatedQuestions'.threw THEN "rejected" ELSE "deduped"
    /\ outcome' = IF deduplicatedQuestions'.threw
                  THEN [status |-> "rejected", error |-> "TypeError"]
                  ELSE [status |-> "returned", error |-> ""]
    /\ UNCHANGED <<utilVars, cards, audioMetadata, questions, questionsWithAudio,
                   codecVars, restoreVars, cleanVars, settings, serviceVars,
                   transcripts, requests, response>>

DedupeNext == RemoveDuplicates

DedupeSpec == DedupeInit /\ [][DedupeNext]_vars

\* the normalized prompt key: runs of whitespace collapsed to one space,
\* trimmed, lower-cased
PromptKey(q) == ToLowerCase(Trim(CollapseWhitespace(q.prompt.v)))

\* the subsequence of qs holding, for each key, the first question with it
FirstPerKey(qs) ==
    LET kept == {i \in 1..Len(qs) : \A j \in 1..(i - 1) : PromptKey(qs[j]) # PromptKey(qs[i])}
        nth(k) == CHOOSE i \in kept : Cardinality({j \in kept : j < i}) = k - 1
    IN  [k \in 1..Cardinality(kept) |-> qs[nth(k)]]

\* C7: removeDuplicateQuestions returns the subsequence of its input holding,
\* for each normalized prompt key, exactly the first question with that key,
\* in the original order; applied to its own output it changes nothing.
C7_DedupeKeepsFirstPerKey ==
    pc = "deduped" =>
        /\ deduplicatedQuestions = [threw |-> FALSE, value |-> FirstPerKey(questionsWithAudio.value)]
        /\ removeDuplicateQuestions(deduplicatedQuestions.value) = deduplicatedQuestions

\* two questions whose prompts differ only in case and spacing: the first is
\* kept, the second dropped
C7_Witness ==
    /\ pc = "deduped"
    /\ Len(questionsWithAudio.value) = 3
    /\ questionsWithAudio.value[1].prompt.v = "Ab c"
    /\ questionsWithAudio.value[2].prompt.v = "abc"
    /\ questionsWithAudio.value[3].prompt.v = " ab c "
    /\ Len(deduplicatedQuestions.value) = 2
    /\ deduplicatedQuestions.value[1].id = 1
    /\ deduplicatedQuestions.value[2].id = 2

(***************************************************************************)
(* AIQuizGenerator.cleanJsonString.                                         *)
(***************************************************************************)
HexDigits == Digits \cup {"a", "b", "c", "d", "e", "f", "A", "B", "C", "D", "E", "F"}

\* the backquote, which a string of this module cannot hold: "~" stands for it
BackQuote == "~"
Fence == BackQuote \o BackQuote \o BackQuote

\* the character U+0008
BackSpace == ""

\* last position of the run of whitespace from i on (i - 1 when empty)
RECURSIVE WhiteSpaceEnd(_, _)
WhiteSpaceEnd(s, i) ==
    IF i <= Len(s) /\ CharAt(s, i) \in WhiteSpace THEN WhiteSpaceEnd(s, i + 1) ELSE i - 1

\* the position after the opening fence (three backquotes, an optional
\* "json", whitespace) that starts at open
FenceOpenEnd(s, open) ==
    WhiteSpaceEnd(s, IF StartsWithAt(s, "json", open + 3) THEN open + 7 ELSE open + 3) + 1

\* s.replace(...) of an opening fence at the start of the text
StripLeadingFence(s) ==
    IF StartsWithAt(s, Fence, 1) THEN SubSeq(s, FenceOpenEnd(s, 1), Len(s)) ELSE s

\* s.replace(...) of whitespace and three backquotes at the end of the text
StripTrailingFence(s) ==
    IF StartsWithAt(s, Fence, Len(s) - 2) THEN TrimEnd(SubSeq(s, 1, Len(s) - 3)) ELSE s

\* step 1: the text inside the first complete code block, else the text
\* without a leading and a trailing fence
RemoveCodeBlock(cleaned) ==
    LET open  == IndexOf(cleaned, Fence, 1)
        close == IF open = 0 THEN 0 ELSE IndexOf(cleaned, Fence, FenceOpenEnd(cleaned, open))
    IN  IF close # 0
        THEN Trim(SubSeq(cleaned, FenceOpenEnd(cleaned, open), close - 1))
        ELSE StripTrailingFence(StripLeadingFence(cleaned))

\* step 2: the text from the first "{" to the last "}"
ObjectBoundaries(cleaned) ==
    LET firstBrace == IndexOf(cleaned, "{", 1)
        lastBrace  == LastIndexOf(cleaned, "}")
    IN  IF firstBrace # 0 /\ lastBrace # 0 /\ lastBrace > firstBrace
        THEN SubSeq(cleaned, firstBrace, lastBrace)
        ELSE cleaned

\* s.replace(/\\u(?![0-9a-fA-F]{4})/g, "\\\\u")
RECURSIVE FixUnicodeEscapes(_)
FixUnicodeEscapes(s) ==
    LET i   == IndexOf(s, "\\u", 1)
        hex == \A k \in 2..5 : CharAt(s, i + k) \in HexDigits
    IN  IF i = 0 THEN s
        ELSE SubSeq(s, 1, i - 1) \o (IF hex THEN "\\u" ELSE "\\\\u")
                 \o FixUnicodeEscapes(SubSeq(s, i + 2, Len(s)))

\* the control character replaced by one backslash and the letter
RECURSIVE FixControlCharOneBackslash(_, _, _, _)
FixControlCharOneBackslash(s, ctl, words, letter) ==
    LET i == IndexOf(s, ctl, 1)
    IN  IF i = 0 THEN s
        ELSE SubSeq(s, 1, i - 1)
                 \o (IF \E w \in words : StartsWithAt(s, w, i + 1)
                     THEN "\\" \o letter ELSE ctl)
                 \o FixControlCharOneBackslash(SubSeq(s, i + 1, Len(s)), ctl, words, letter)

\* s.replace(/C(w1|w2|...)/g, "\\\\L$1") for a control character C, the
\* words that may follow it and the letter L
RECURSIVE FixControlChar(_, _, _, _)
FixControlChar(s, ctl, words, letter) ==
    LET i == IndexOf(s, ctl, 1)
    IN  IF i = 0 THEN s
        ELSE SubSeq(s, 1, i - 1)
                 \o (IF \E w \in words : StartsWithAt(s, w, i + 1)
                     THEN "\\\\" \o letter ELSE ctl)
                 \o FixControlChar(SubSeq(s, i + 1, Len(s)), ctl, words, letter)

\* s.replace(/\\(.)/g, ...): a backslash and the character after it, kept when
\* the character is one of " \ / b f n r t u, else with the backslash doubled
RECURSIVE FixInvalidEscapes(_)
FixInvalidEscapes(s) ==
    LET i == IndexOf(s, "\\", 1)
        c == CharAt(s, i + 1)
    IN  IF i = 0 THEN s
        ELSE IF c \in {"", "\n", "\r"}
             THEN SubSeq(s, 1, i) \o FixInvalidEscapes(SubSeq(s, i + 1, Len(s)))
             ELSE SubSeq(s, 1, i - 1)
                      \o (IF c \in {"\"", "\\", "/", "b", "f", "n", "r", "t", "u"}
                          THEN "\\" ELSE "\\\\")
                      \o c \o FixInvalidEscapes(SubSeq(s, i + 2, Len(s)))

\* if (cleaned.endsWith('\\')) cleaned = cleaned.slice(0, -1) + '\\\\'
FixTrailingBackslash(s) ==
    IF StartsWithAt(s, "\\", Len(s)) THEN SubSeq(s, 1, Len(s) - 1) \o "\\\\" ELSE s

cleanJsonString(c) ==
    LET s1 == ObjectBoundaries(RemoveCodeBlock(Trim(c)))
        s2 == FixUnicodeEscapes(s1)
        s3 == FixControlChar(s2, "\t", {"ext", "au", "heta", "imes", "an", "op", "o",
                                        "riangle", "herefore"}, "t")
        s4 == FixControlChar(s3, "\n", {"u", "eq", "abla", "eg"}, "n")
        s5 == FixControlChar(s4, "\r", {"ho", "ight", "ef"}, "r")
        s6 == FixControlChar(s5, "\f", {"rac", "orall", "oot"}, "f")
        s7 == FixControlChar(s6, BackSpace, {"eta", "egin", "f", "ar", "inom"}, "b")
    IN  FixTrailingBackslash(FixInvalidEscapes(s7))

(***************************************************************************)
(* JSON.parse: the value of a JSON text, or the SyntaxError.                *)
(***************************************************************************)
JsonWhiteSpace == {" ", "\t", "\n", "\r"}

\* the characters U+0020 to U+007E in order ("~" at the place of the backquote)
AsciiPrintable ==
    " !\"#$%&'()*+,-./0123456789:;<=>?@ABCDEFGHIJKLMNOPQRSTUVWXYZ[\\]^_~abcdefghijklmnopqrstuvwxyz{|}~"

HexValue(c) ==
    IF c \in Digits THEN DigitValue(c)
    ELSE CASE c \in {"a", "A"} -> 10 [] c \in {"b", "B"} -> 11 [] c \in {"c", "C"} -> 12
           [] c \in {"d", "D"} -> 13 [] c \in {"e", "E"} -> 14 [] c \in {"f", "F"} -> 15

\* the character a \uXXXX escape denotes: itself for U+0020 to U+007E, else
\* the escape in lower case, which stands for the character
UnicodeChar(hex4) ==
    LET n == 4096 * HexValue(CharAt(hex4, 1)) + 256 * HexValue(CharAt(hex4, 2))
                 + 16 * HexValue(CharAt(hex4, 3)) + HexValue(CharAt(hex4, 4))
    IN  IF n >= 32 /\ n <= 126 THEN CharAt(AsciiPrintable, n - 31)
        ELSE "\\u" \o ToLowerCase(hex4)

ParseFail == [ok |-> FALSE, next |-> 0, value |-> JsUndefined]

\* first position from i on that holds no JSON whitespace
RECURSIVE SkipJsonWhiteSpace(_, _)
SkipJsonWhiteSpace(s, i) ==
    IF i <= Len(s) /\ CharAt(s, i) \in JsonWhiteSpace THEN SkipJsonWhiteSpace(s, i + 1) ELSE i

\* the characters of a string literal from i on, up to its closing quote:
\* the decoded text and the position after the quote
RECURSIVE ParseJsonChars(_, _)
ParseJsonChars(s, i) ==
    LET c == CharAt(s, i)
        e == CharAt(s, i + 1)
        simple == CASE e \in {"\"", "\\", "/"} -> e
                    [] e = "b" -> BackSpace [] e = "f" -> "\f" [] e = "n" -> "\n"
                    [] e = "r" -> "\r" [] e = "t" -> "\t"
        hex4 == SubSeq(s, i + 2, i + 5)
        rest(ch, k) == LET r == ParseJsonChars(s, k)
                       IN  IF r.ok THEN [ok |-> TRUE, next |-> r.next, value |-> ch \o r.value]
                           ELSE [ok |-> FALSE, next |-> 0, value |-> ""]
    IN  IF c = "" \/ c \in {"\t", "\n", "\r", "\f", BackSpace}
        THEN [ok |-> FALSE, next |-> 0, value |-> ""]
        ELSE IF c = "\"" THEN [ok |-> TRUE, next |-> i + 1, value |-> ""]
        ELSE IF c # "\\" THEN rest(c, i + 1)
        ELSE IF e \in {"\"", "\\", "/", "b", "f", "n", "r", "t"} THEN rest(simple, i + 2)
        ELSE IF e = "u" /\ i + 5 <= Len(s) /\ \A k \in 2..5 : CharAt(s, i + k) \in HexDigits
             THEN rest(UnicodeChar(hex4), i + 6)
        ELSE [ok |-> FALSE, next |-> 0, value |-> ""]

\* a number from i on: -? (0 | [1-9][0-9]*) (.[0-9]+)? ([eE][+-]?[0-9]+)?
ParseJsonNumber(s, i) ==
    LET j    == IF CharAt(s, i) = "-" THEN i + 1 ELSE i
        int  == IF CharAt(s, j) = "0" THEN j ELSE DigitsEnd(s, j)
        frac == IF CharAt(s, int + 1) = "." THEN DigitsEnd(s, int + 2) ELSE int
        sign == IF CharAt(s, frac + 2) \in {"+", "-"} THEN frac + 3 ELSE frac + 2
        exp  == IF CharAt(s, frac + 1) \in {"e", "E"} THEN DigitsEnd(s, sign) ELSE frac
    IN  IF int < j THEN ParseFail
        ELSE IF CharAt(s, int + 1) = "." /\ frac < int + 2 THEN ParseFail
        ELSE IF CharAt(s, frac + 1) \in {"e", "E"} /\ exp < sign THEN ParseFail
        ELSE [ok |-> TRUE, next |-> exp + 1, value |-> JsNumber(SubSeq(s, i, exp))]

RECURSIVE ParseJsonValue(_, _)
RECURSIVE ParseJsonElements(_, _)
RECURSIVE ParseJsonMembers(_, _)

\* the elements of an array from the first one at i on, up to the "]"
ParseJsonElements(s, i) ==
    LET v    == ParseJsonValue(s, i)
        k    == SkipJsonWhiteSpace(s, v.next)
        more == ParseJsonElements(s, SkipJsonWhiteSpace(s, k + 1))
    IN  IF ~v.ok THEN ParseFail
        ELSE IF CharAt(s, k) = "]"
             THEN [ok |-> TRUE, next |-> k + 1, value |-> JsArray(<<v.value>>)]
        ELSE IF CharAt(s, k) = "," /\ more.ok
             THEN [ok |-> TRUE, next |-> more.next,
                   value |-> JsArray(<<v.value>> \o more.value.items)]
        ELSE ParseFail

\* the members of an object from the first key at i on, up to the "}"
ParseJsonMembers(s, i) ==
    LET key   == ParseJsonChars(s, i + 1)
        colon == SkipJsonWhiteSpace(s, key.next)
        v     == ParseJsonValue(s, SkipJsonWhiteSpace(s, colon + 1))
        k     == SkipJsonWhiteSpace(s, v.next)
        more  == ParseJsonMembers(s, SkipJsonWhiteSpace(s, k + 1))
    IN  IF CharAt(s, i) # "\"" \/ ~key.ok \/ CharAt(s, colon) # ":" THEN ParseFail
        ELSE IF ~v.ok THEN ParseFail
        ELSE IF CharAt(s, k) = "}"
             THEN [ok |-> TRUE, next |-> k + 1, value |-> JsObject(<<key.value>>, <<v.value>>)]
        ELSE IF CharAt(s, k) = "," /\ more.ok
             THEN [ok |-> TRUE, next |-> more.next,
                   value |-> JsObject(<<key.value>> \o more.value.keys,
                                      <<v.value>> \o more.value.items)]
        ELSE ParseFail

\* the value that starts at i
ParseJsonValue(s, i) ==
    LET c     == CharAt(s, i)
        inner == SkipJsonWhiteSpace(s, i + 1)
        str   == ParseJsonChars(s, i + 1)
    IN  CASE c = "{" -> IF CharAt(s, inner) = "}"
                        THEN [ok |-> TRUE, next |-> inner + 1, value |-> JsObject(<<>>, <<>>)]
                        ELSE ParseJsonMembers(s, inner)
          [] c = "[" -> IF CharAt(s, inner) = "]"
                        THEN [ok |-> TRUE, next |-> inner + 1, value |-> JsArray(<<>>)]
                        ELSE ParseJsonElements(s, inner)
          [] c = "\"" -> IF str.ok
                         THEN [ok |-> TRUE, next |-> str.next, value |-> JsString(str.value)]
                         ELSE ParseFail
          [] c = "-" \/ c \in Digits -> ParseJsonNumber(s, i)
          [] StartsWithAt(s, "true", i) ->
                 [ok |-> TRUE, next |-> i + 4, value |-> JsBoolean("true")]
          [] StartsWithAt(s, "false", i) ->
                 [ok |-> TRUE, next |-> i + 5, value |-> JsBoolean("false")]
          [] StartsWithAt(s, "null", i) -> [ok |-> TRUE, next |-> i + 4, value |-> JsNull]
          [] OTHER -> ParseFail

\* JSON.parse(s): one value between optional whitespace, and nothing else
JSONParse(s) ==
    LET v == ParseJsonValue(s, SkipJsonWhiteSpace(s, 1))
    IN  IF v.ok /\ SkipJsonWhiteSpace(s, v.next) = Len(s) + 1
        THEN [ok |-> TRUE, value |-> v.value]
        ELSE [ok |-> FALSE, value |-> JsUndefined]

(***************************************************************************)
(* CleanSpec: cleanJsonString applied to one response text.                 *)
(***************************************************************************)
\* pieces of the inside of a JSON string literal: letters, the escapes \\, \n
\* and é, the invalid escape \c, a raw tab and a raw line feed, the rest of
\* the command name \text, the control characters CR, FF and BS in front of
\* the rest of \rho, \frac and \beta, and a raw tab behind a lone backslash
JsonBodySegs ==
    {"a", "u", "\\\\", "\\n", "\\u00e9", "\\c", "\t", "\n", "ext", "\rho", "\frac",
     BackSpace \o "eta", "\\\t"}

CleanContents ==
    UNION {{"{\"p\":\"" \o b \o "\"}",
            "{ \"p\" :\n\t\"" \o b \o "\" }",
            Fence \o "json\n{\"p\":\"" \o b \o "\"}\n" \o Fence,
            Fence \o "\n{\"p\":\"" \o b \o "\"}\n" \o Fence,
            Fence \o "json\nHere is the quiz: {\"p\":\"" \o b \o "\"} Enjoy!\n" \o Fence,
            "Sure!\n" \o Fence \o "json\n{\"p\":\"" \o b \o "\"}\n" \o Fence \o "\nGood luck."} :
              b \in TextsOf(JsonBodySegs, MaxSegs)}

CleanInit ==
    /\ pc = "clean"
    /\ cards = <<>>
    /\ audioMetadata = extractAudioMetadata(<<>>)
    /\ UtilIdle
    /\ content \in CleanContents
    /\ cleanedContent = ""
    /\ CodecIdle /\ RestoreIdle /\ QuestionIdle /\ PipeIdle

\* const cleanedContent = this.cleanJsonString(content)
CleanContent ==
    /\ pc = "clean"
    /\ cleanedContent' = cleanJsonString(content)
    /\ pc' = "cleaned"
    /\ UNCHANGED <<utilVars, cards, audioMetadata, content, codecVars, restoreVars, questionVars,
                   pipeVars>>

CleanNext == CleanContent

CleanSpec == CleanInit /\ [][CleanNext]_vars

\* C8: sanitizer idempotence on clean input -- a text that is valid JSON,
\* starts with "{", ends with "}" and contains no code fence is returned by
\* cleanJsonString unchanged.
C8_CleanInputUnchanged ==
    (/\ pc = "cleaned"
     /\ JSONParse(content).ok
     /\ StartsWithAt(content, "{", 1)
     /\ StartsWithAt(content, "}", Len(content))
     /\ ~Includes(content, Fence)) => cleanedContent = content


(***************************************************************************)
(* The provider arms: callOpenAI, callAnthropic, callGemini,               *)
(* callOpenRouter and callCustomAPI, from the point where requestUrl has   *)
(* settled.  A response is the settled request: status "ok" with the       *)
(* parsed body in json, or "failed" with the HTTP status (0 for none) and  *)
(* the message of the rejection.  An arm yields the question list or the   *)
(* error it throws.  "TypeError" stands for the engine's message of a       *)
(* TypeError.                                                              *)
(***************************************************************************)
Providers == {"openai", "anthropic", "gemini", "openrouter", "custom"}

ProviderName(provider) ==
    CASE provider = "openai" -> "OpenAI"
      [] provider = "anthropic" -> "Anthropic"
      [] provider = "gemini" -> "Gemini"
      [] provider = "openrouter" -> "OpenRouter"
      [] provider = "custom" -> "custom API"

\* the message of the arm's configuration check
ConfigurationError(provider) ==
    IF provider = "custom" THEN "Custom API configuration incomplete"
    ELSE ProviderName(provider) \o " API key not configured"

\* the arm's configuration check: the key, and for the custom arm the base URL
Configured(s) == s.apiKey # "" /\ (s.provider = "custom" => s.baseUrl # "")

ArmThrows(message, c, cleaned) ==
    [threw |-> TRUE, error |-> message, questions |-> <<>>, content |-> c, cleanedContent |-> cleaned]

IncompleteMessage ==
    "Response appears incomplete (doesn't start/end with braces). This usually means the response was truncated. Try generating fewer questions or increase max tokens."

\* "SyntaxError" stands for the message of the error JSON.parse threw
InvalidJsonMessage(provider) ==
    "Invalid JSON response from "
        \o (IF provider = "custom" THEN "Custom API" ELSE ProviderName(provider))
        \o " (SyntaxError). The response was likely truncated. Try generating fewer questions "
        \o (IF provider = "gemini"
            THEN "(current settings requested questions may be too many) or increase max tokens in settings."
            ELSE "or increase max tokens.")

\* parsed.questions.map(q => ({id, type, prompt, options, correctAnswer, explanation}))
MapQuestions(list) ==
    [n \in 1..Len(list.items) |->
        Question(n, GetProp(list.items[n], "type"), GetProp(list.items[n], "prompt"),
                 GetProp(list.items[n], "options"), GetProp(list.items[n], "correctAnswer"),
                 GetProp(list.items[n], "explanation"))]

\* the lenient reading of a reply that fails JSON.parse: the questions of the
\* longest prefix that can be closed into a document
RECURSIVE SalvageQuestions(_, _)
SalvageQuestions(cleaned, n) ==
    LET closed == JSONParse(SubSeq(cleaned, 1, n) \o "]}")
        list   == GetProp(closed.value, "questions")
    IN  IF n = 0 THEN <<>>
        ELSE IF closed.ok /\ closed.value.t = "object" /\ list.t = "array"
                /\ \A k \in 1..Len(list.items) : list.items[k].t = "object"
             THEN MapQuestions(list)
        ELSE SalvageQuestions(cleaned, n - 1)

\* an arm that builds a list from the part of the reply it could read
ParseContentLenient(c, provider) ==
    LET map(cleaned, list) ==
            IF provider = "gemini" /\ (~Truthy(list) \/ list.t # "array")
            THEN ArmThrows("Gemini response missing \"questions\" array", c.v, cleaned)
            ELSE IF list.t # "array"
                    \/ \E n \in 1..Len(list.items) : list.items[n].t \in {"undefined", "null"}
                 THEN ArmThrows("TypeError", c.v, cleaned)
            ELSE [threw |-> FALSE, error |-> "", questions |-> MapQuestions(list),
                  content |-> c.v, cleanedContent |-> cleaned]
        parse(cleaned, parsed) ==
            IF ~parsed.ok
            THEN [threw |-> FALSE, error |-> "",
                  questions |-> SalvageQuestions(cleaned, Len(cleaned)),
                  content |-> c.v, cleanedContent |-> cleaned]
            ELSE map(cleaned, GetProp(parsed.value, "questions"))
        check(cleaned) ==
            IF ~StartsWithAt(cleaned, "{", 1) \/ ~StartsWithAt(cleaned, "}", Len(cleaned))
            THEN ArmThrows(IncompleteMessage, c.v, cleaned)
            ELSE parse(cleaned, JSONParse(cleaned))
    IN  IF c.t # "string" THEN ArmThrows("TypeError", "", "")
        ELSE check(cleanJsonString(c.v))

\* from the content of the envelope to the question list: cleanJsonString
\* (content.trim() throws on anything but a string), the structural check,
\* JSON.parse, Gemini's check of the array, and the map over parsed.questions
ParseContent(c, provider) ==
    LET map(cleaned, list) ==
            IF provider = "gemini" /\ (~Truthy(list) \/ list.t # "array")
            THEN ArmThrows("Gemini response missing \"questions\" array", c.v, cleaned)
            ELSE IF list.t # "array"
                    \/ \E n \in 1..Len(list.items) : list.items[n].t \in {"undefined", "null"}
                 THEN ArmThrows("TypeError", c.v, cleaned)
            ELSE [threw |-> FALSE, error |-> "", questions |-> MapQuestions(list),
                  content |-> c.v, cleanedContent |-> cleaned]
        parse(cleaned, parsed) ==
            IF ~parsed.ok THEN ArmThrows(InvalidJsonMessage(provider), c.v, cleaned)
            ELSE map(cleaned, GetProp(parsed.value, "questions"))
        check(cleaned) ==
            IF ~StartsWithAt(cleaned, "{", 1) \/ ~StartsWithAt(cleaned, "}", Len(cleaned))
            THEN ArmThrows(IncompleteMessage, c.v, cleaned)
            ELSE parse(cleaned, JSONParse(cleaned))
    IN  IF c.t # "string" THEN ArmThrows("TypeError", "", "")
        ELSE check(cleanJsonString(c.v))

\* where the arm reads the content in the body
ContentPath(provider) ==
    CASE provider = "anthropic" -> <<"content", "0", "text">>
      [] provider = "gemini" -> <<"content", "parts", "0", "text">>
      [] OTHER -> <<"choices", "0", "message", "content">>

\* a catch that reports every failure of the arm under one fixed message
CatchArmErrorOpaque(r, provider) ==
    IF r.threw
    THEN [r EXCEPT !.error = "Failed to generate quiz with " \o ProviderName(provider)]
    ELSE r

\* the catch around the request and the parsing in the OpenAI, Anthropic,
\* OpenRouter and custom arms
CatchArmError(r, provider) ==
    IF r.threw /\ ~Includes(r.error, "Invalid JSON")
    THEN [r EXCEPT !.error = "Failed to generate quiz with " \o ProviderName(provider) \o ": " \o r.error]
    ELSE r

\* callOpenAI, callAnthropic, callOpenRouter, callCustomAPI after the request
callChatProvider(provider, r) ==
    LET c == ReadPath(r.json, ContentPath(provider))
    IN  CatchArmError(IF r.status = "failed" THEN ArmThrows(r.message, "", "")
                      ELSE IF c.threw THEN ArmThrows("TypeError", "", "")
                      ELSE ParseContent(c.value, provider),
                      provider)

\* the message callGemini makes of a failed request; the model is the default
\* one and "->" stands for the arrow of the settings path
GeminiRequestError(r) ==
    LET errorDetails == IF r.message # "" THEN r.message ELSE "Unknown error"
    IN  CASE r.httpStatus = 0 ->
               "Gemini API network error: "
                   \o (IF r.message # "" THEN r.message ELSE "Unknown network error")
                   \o ". Possible causes: Check your internet connection; "
                   \o "Verify your API key is correct in Settings -> Quiz generation; "
                   \o "Check if firewall/proxy is blocking the request; Try again in a few moments; "
                   \o "Verify the API endpoint is accessible: https://generativelanguage.googleapis.com/v1beta. "
                   \o "Make sure your Gemini API key is valid and you have internet access."
          [] r.httpStatus = 400 ->
               "Gemini API returned 400 Bad Request: " \o errorDetails
                   \o ". Common causes: invalid model name (check that 'gemini-1.5-flash' exists), "
                   \o "invalid parameters, or malformed request."
          [] r.httpStatus \in {401, 403} ->
               "Gemini API authentication failed (" \o IntToString(r.httpStatus) \o "): " \o errorDetails
                   \o ". Check your API key in Settings -> Quiz generation (AI-powered). "
                   \o "Make sure it's a valid Gemini API key from https://aistudio.google.com/apikey"
          [] r.httpStatus = 429 ->
               "Gemini API rate limit exceeded: " \o errorDetails \o ". Please wait and try again."
          [] OTHER -> "Gemini API request failed (status " \o IntToString(r.httpStatus) \o "): " \o errorDetails

\* callGemini after the request, with the logger the plugin passes
callGemini(r) ==
    LET data         == r.json
        candidates   == GetProp(data, "candidates")
        feedback     == GetProp(data, "promptFeedback")
        blockReason  == IF feedback.t \in {"undefined", "null"} THEN JsUndefined
                        ELSE GetProp(feedback, "blockReason")
        ratings      == GetProp(feedback, "safetyRatings")
        rating       == IF ratings.t \in {"undefined", "null"} THEN JsUndefined
                        ELSE GetProp(ratings, "0")
        category     == IF rating.t \in {"undefined", "null"} THEN JsUndefined
                        ELSE GetProp(rating, "category")
        candidate    == GetProp(candidates, "0")
        c            == ReadPath(candidate, ContentPath("gemini"))
        finishReason == GetProp(candidate, "finishReason")
    IN  IF r.status = "failed" THEN ArmThrows(GeminiRequestError(r), "", "")
        ELSE IF data.t \in {"undefined", "null"} THEN ArmThrows("TypeError", "", "")
        ELSE IF ~Truthy(candidates) \/ GetProp(candidates, "length") = JsNumber("0")
             THEN IF Truthy(blockReason)
                  THEN ArmThrows("Gemini blocked the request: " \o ToStringForExec(blockReason)
                                     \o ". Reason: "
                                     \o (IF Truthy(category) THEN ToStringForExec(category)
                                         ELSE "Unknown"),
                                 "", "")
                  ELSE ArmThrows("Gemini returned no response candidates. The request may have been blocked or failed.",
                                 "", "")
        ELSE IF c.threw \/ c.value.t \in {"undefined", "null"} THEN ArmThrows("TypeError", "", "")
        ELSE IF finishReason \in {JsString("MAX_TOKENS"), JsString("LENGTH")}
             THEN ArmThrows("Quiz generation incomplete: Response was too long (finish reason: "
                            \o finishReason.v
                            \o "). Try generating fewer questions or increase max tokens in settings.",
                            "", "")
        ELSE ParseContent(c.value, "gemini")

\* the arm the switch of generateQuestions selects, after its request
callProvider(provider, r) ==
    IF provider = "gemini" THEN callGemini(r) ELSE callChatProvider(provider, r)


(***************************************************************************)
(* Spec: one invocation of generateQuestions on a freshly constructed      *)
(* generator, from the constructor to the settled promise.                 *)
(***************************************************************************)
\* settings.voiceAI with the entry of the selected transcription provider
VoiceSettings ==
    {NoVoice,
     [enabled |-> TRUE, provider |-> "openai-whisper", apiKey |-> "wk", cacheTranscriptions |-> TRUE],
     [enabled |-> TRUE, provider |-> "openai-whisper", apiKey |-> "", cacheTranscriptions |-> FALSE],
     [enabled |-> TRUE, provider |-> "google-speech", apiKey |-> "gk", cacheTranscriptions |-> FALSE]}

\* the quiz settings with the entry of the selected provider
QuizSettings ==
    {[enabled |-> en, provider |-> p, apiKey |-> k, baseUrl |-> b, voiceAI |-> v] :
        en \in BOOLEAN, p \in Providers \cup {"other"}, k \in {"", "sk"},
        b \in {"", "http://llm"}, v \in VoiceSettings}

\* transcriptions.json at construction: absent, holding a current entry, or
\* holding an entry older than the audio file
DiskCaches ==
    {NoDiskCache,
     [exists |-> TRUE, entries |-> ("a.mp3" :> [text |-> "cached words", fileModifiedTime |-> 2])],
     [exists |-> TRUE, entries |-> ("a.mp3" :> [text |-> "old words", fileModifiedTime |-> 1])]}

QuestionJson(prompt, answer) ==
    "{\"type\":\"fill-blank\",\"prompt\":\"" \o prompt \o "\",\"correctAnswer\":\"" \o answer \o "\"}"

GoodReply ==
    "{\"questions\":[" \o QuestionJson("Hear [AUDIO:c1:0]", "bell") \o ","
        \o QuestionJson("What is A?", "A") \o "]}"

\* what a provider may put in the content of its reply
ReplyTexts ==
    {GoodReply,
     Fence \o "json\n" \o GoodReply \o "\n" \o Fence,
     "{\"questions\":[" \o QuestionJson("What is A?", "A") \o "," \o QuestionJson("what  is a?", "B") \o "]}",
     "{\"questions\":[" \o QuestionJson("", "x") \o "," \o QuestionJson("What is A?", "A") \o "]}",
     "{\"questions\":[{\"prompt\":\"Q1\"}," \o QuestionJson("What is A?", "A") \o "]}",
     "{\"questions\":[{\"correctAnswer\":\"A\"}," \o QuestionJson("What is A?", "A") \o "]}",
     "{\"questions\":[null]}",
     "{\"questions\":\"none\"}",
     "{\"items\":[]}",
     SubSeq(GoodReply, 1, Len(GoodReply) - 2),
     "{\"questions\":[{\"prompt\":\"Hear",
     "I cannot help with that."}

\* the body of a reply that carries content c; a finishReason of "MAX_TOKENS"
\* is Gemini's name for output cut at the token limit, which the chat
\* completion bodies report as finish_reason "length" and Anthropic's as
\* stop_reason "max_tokens"
Envelope(provider, c, finishReason) ==
    CASE provider = "anthropic" ->
           JsObject(<<"content", "stop_reason">>,
                    <<JsArray(<<JsObject(<<"type", "text">>, <<JsString("text"), c>>)>>),
                      JsString(IF finishReason = "MAX_TOKENS" THEN "max_tokens" ELSE "end_turn")>>)
      [] provider = "gemini" ->
           JsObject(<<"candidates">>,
                    <<JsArray(<<JsObject(<<"content", "finishReason">>,
                                         <<JsObject(<<"parts">>, <<JsArray(<<JsObject(<<"text">>, <<c>>)>>)>>),
                                           JsString(finishReason)>>)>>)>>)
      [] OTHER ->
           JsObject(<<"choices">>,
                    <<JsArray(<<JsObject(<<"message", "finish_reason">>,
                                         <<JsObject(<<"content">>, <<c>>),
                                           JsString(IF finishReason = "MAX_TOKENS" THEN "length"
                                                    ELSE "stop")>>)>>)>>)

Settled(json) == [status |-> "ok", httpStatus |-> 200, message |-> "", json |-> json]

\* the ways the request of a provider can settle
Responses(provider) ==
    {Settled(Envelope(provider, JsString(t), "STOP")) : t \in ReplyTexts}
        \cup {Settled(Envelope(provider, JsString(GoodReply), "MAX_TOKENS")),
              Settled(Envelope(provider, JsNull, "STOP")),
              Settled(JsObject(<<"error">>, <<JsString("overloaded")>>)),
              Settled(JsObject(<<"candidates", "promptFeedback">>,
                               <<JsArray(<<>>), JsObject(<<"blockReason">>, <<JsString("SAFETY")>>)>>)),
              [status |-> "failed", httpStatus |-> 0, message |-> "net::ERR_FAILED", json |-> JsUndefined],
              [status |-> "failed", httpStatus |-> 429, message |-> "Request failed, status 429",
               json |-> JsUndefined],
              [status |-> "failed", httpStatus |-> 401, message |-> "Request failed, status 401",
               json |-> JsUndefined],
              [status |-> "failed", httpStatus |-> 400, message |-> "Request failed, status 400",
               json |-> JsUndefined]}

\* the cards of an invocation: the second card embeds a file that is missing
\* and one that is found by its name in a folder
PipelineCards ==
    <<RestoreCards[1],
      [id |-> "n.md:L1", front |-> "![[c.ogg]] ![[d.mp3|clip]]", back |-> "A", file |-> "n.md"]>>

Init ==
    /\ pc = "new"
    /\ cards \in {<<>>, PipelineCards}
    /\ audioMetadata = <<>>
    /\ UtilIdle
    /\ CodecIdle /\ RestoreIdle /\ QuestionIdle /\ CleanIdle
    /\ settings \in QuizSettings
    /\ settings.provider # "custom" => settings.baseUrl = ""
    /\ settings.voiceAI.enabled => settings.provider \in {"openai", "gemini"}
    /\ diskCache \in DiskCaches
    /\ ~settings.voiceAI.cacheTranscriptions => diskCache = NoDiskCache
    /\ cache = <<>>
    /\ cacheLoad = [pending |-> settings.voiceAI.enabled /\ diskCache.exists,
                    content |-> IF settings.voiceAI.enabled /\ diskCache.exists
                                THEN diskCache.entries ELSE <<>>]
    /\ inFlight = <<>> /\ lookup = NoLookup
    /\ transcripts = <<>> /\ requests = <<>>
    /\ response = NoResponse /\ outcome = Pending

\* the promise of generateQuestions rejects with an Error of this message
Reject(message) ==
    /\ pc' = "rejected"
    /\ outcome' = [status |-> "rejected", error |-> message]

\* generateQuestions indexing the audio of the cards before its two guards
CheckPreconditionsAfterIndexing ==
    /\ pc = "new"
    /\ audioMetadata' = extractAudioMetadata(cards)
    /\ IF Len(cards) = 0 THEN Reject("No cards available to generate quiz")
       ELSE IF ~settings.enabled THEN Reject("AI quiz generation is not enabled in settings")
       ELSE pc' = "start" /\ outcome' = outcome
    /\ UNCHANGED <<utilVars, cards, codecVars, restoreVars, questionVars, cleanVars,
                   settings, serviceVars, transcripts, requests, response>>

\* the two guards at the top of generateQuestions
CheckPreconditions ==
    /\ pc = "new"
    /\ IF Len(cards) = 0 THEN Reject("No cards available to generate quiz")
       ELSE IF ~settings.enabled THEN Reject("AI quiz generation is not enabled in settings")
       ELSE pc' = "start" /\ outcome' = outcome
    /\ UNCHANGED <<utilVars, cards, audioMetadata, codecVars, restoreVars, questionVars, cleanVars,
                   settings, serviceVars, transcripts, requests, response>>

\* the loadCache the service's constructor started without awaiting it
\* completes: the file it read replaces the memory cache
LoadCache ==
    /\ cacheLoad.pending
    /\ cache' = cacheLoad.content
    /\ cacheLoad' = NoCacheLoad
    /\ UNCHANGED <<utilVars, pc, cards, audioMetadata, codecVars, restoreVars, questionVars, cleanVars,
                   settings, diskCache, inFlight, lookup, callVars>>

\* the loops of transcribeCardAudio calling transcribeAudio without awaiting
NotAwaited(calls) == TRUE

\* the await in front of every transcribeAudio call of transcribeCardAudio:
\* the loops go on once the call made before has returned
Awaited(calls) == calls = <<>>

\* the transcribeAudio calls made so far
Started == Len(transcripts) + Len(inFlight)

\* the calls under way without the n-th
Without(calls, n) == [i \in 1..(Len(calls) - 1) |-> IF i < n THEN calls[i] ELSE calls[i + 1]]

\* the CachedTranscription cacheTranscription builds for a call
CachedRecord(call) ==
    [text |-> VaultFiles[call.file].speech, fileModifiedTime |-> VaultFiles[call.file].mtime]

\* one iteration of the loops of transcribeCardAudio begins: the path of the
\* next reference is extracted and transcribeAudio called, which returns at
\* once (no path, no file, a cached text) or sends its request
StartTranscription ==
    LET returned(k, result, words) ==
            transcripts' = Append(transcripts, [job |-> k, result |-> result, text |-> words])
        begin(k, audioPath, sourcePath, h) ==
            /\ cache' = h.cache
            /\ lookup' = IF h.lookup.from = "skipped" THEN lookup
                         ELSE [audioPath |-> audioPath, sourcePath |-> sourcePath,
                               from |-> h.lookup.from,
                               fileModifiedTime |-> h.lookup.fileModifiedTime,
                               hit |-> h.lookup.hit, text |-> h.lookup.text]
            /\ IF h.step = "return"
               THEN returned(k, h.result, h.text) /\ UNCHANGED <<inFlight, requests>>
               ELSE /\ inFlight' = Append(inFlight, [job |-> k, audioPath |-> audioPath,
                                                     file |-> h.file, attempt |-> 1,
                                                     phase |-> "request"])
                    /\ requests' = Append(requests, "transcription")
                    /\ transcripts' = transcripts
        call(k, job, audioPath) ==
            IF audioPath = ""
            THEN returned(k, FALSE, "") /\ UNCHANGED <<cache, inFlight, lookup, requests>>
            ELSE begin(k, audioPath, cards[job.card].file,
                       transcribeAudio(audioPath, cards[job.card].file, settings.voiceAI,
                                       cache, diskCache))
    IN  /\ pc = "indexed"
        /\ TranscriptionActive
        /\ Started < Len(Jobs)
        /\ Awaited(inFlight)
        /\ call(Started + 1, Jobs[Started + 1], extractAudioPath(Jobs[Started + 1].wikilink))
        /\ UNCHANGED <<utilVars, pc, cards, audioMetadata, codecVars, restoreVars, questionVars, cleanVars,
                       settings, diskCache, cacheLoad, response, outcome>>

\* the request of a transcription arm settles.  A result is returned, after
\* the memory part of cacheTranscription when transcriptions are cached; a
\* failure of the Whisper arm's first request is followed by its second one,
\* with a hand-built multipart body; any other failure makes transcribeAudio
\* return null
ReceiveTranscription ==
    LET finish(n, call, result) ==
            /\ transcripts' = Append(transcripts,
                                     [job |-> call.job, result |-> result,
                                      text |-> IF result THEN VaultFiles[call.file].speech ELSE ""])
            /\ inFlight' = Without(inFlight, n)
            /\ UNCHANGED <<cache, requests>>
        settle(n, call, ok) ==
            IF ok
            THEN IF settings.voiceAI.cacheTranscriptions
                 THEN /\ cache' = cacheTranscription(call.audioPath, CachedRecord(call), cache)
                      /\ inFlight' = [inFlight EXCEPT ![n].phase = "store"]
                      /\ UNCHANGED <<transcripts, requests>>
                 ELSE finish(n, call, TRUE)
            ELSE IF settings.voiceAI.provider = "openai-whisper" /\ call.attempt = 1
                 THEN /\ inFlight' = [inFlight EXCEPT ![n].attempt = 2]
                      /\ requests' = Append(requests, "transcription")
                      /\ UNCHANGED <<cache, transcripts>>
                 ELSE finish(n, call, FALSE)
    IN  /\ \E n \in DOMAIN inFlight :
              /\ inFlight[n].phase = "request"
              /\ \E ok \in BOOLEAN : settle(n, inFlight[n], ok)
        /\ UNCHANGED <<utilVars, pc, cards, audioMetadata, codecVars, restoreVars, questionVars, cleanVars,
                       settings, diskCache, cacheLoad, lookup, response, outcome>>

\* cacheTranscription completes: the cache file is read, updated and written,
\* each of which may fail, and transcribeAudio returns its result
FinishStore ==
    LET save(n, call, io) ==
            /\ diskCache' = SaveToDisk(call.audioPath, CachedRecord(call), diskCache, io)
            /\ transcripts' = Append(transcripts,
                                     [job |-> call.job, result |-> TRUE,
                                      text |-> VaultFiles[call.file].speech])
            /\ inFlight' = Without(inFlight, n)
    IN  /\ \E n \in DOMAIN inFlight :
              /\ inFlight[n].phase = "store"
              /\ \E io \in {"ok", "read-fail", "write-fail"} : save(n, inFlight[n], io)
        /\ UNCHANGED <<utilVars, pc, cards, audioMetadata, codecVars, restoreVars, questionVars, cleanVars,
                       settings, cache, cacheLoad, lookup, requests, response, outcome>>

\* baseUrl.replace(/\/+$/, '')
RECURSIVE StripTrailingSlashes(_)
StripTrailingSlashes(s) ==
    IF StartsWithAt(s, "/", Len(s)) THEN StripTrailingSlashes(SubSeq(s, 1, Len(s) - 1)) ELSE s

\* every arm sending its request to the endpoint of OpenAI
RequestUrlOfOpenAI(st) == "https://api.openai.com/v1/chat/completions"

\* the url of the request the selected arm sends, with the default base url
\* and model of the arm; the custom arm uses the base url of the settings
RequestUrl(st) ==
    CASE st.provider = "openai" -> "https://api.openai.com/v1" \o "/chat/completions"
      [] st.provider = "anthropic" -> "https://api.anthropic.com/v1" \o "/messages"
      [] st.provider = "gemini" ->
           "https://generativelanguage.googleapis.com/v1beta" \o "/models/"
               \o "gemini-1.5-flash" \o ":generateContent"
      [] st.provider = "openrouter" -> "https://openrouter.ai/api/v1" \o "/chat/completions"
      [] st.provider = "custom" -> StripTrailingSlashes(st.baseUrl) \o "/chat/completions"

\* the switch on settings.provider and the head of the selected arm: its
\* configuration check and its request
CallProvider ==
    /\ pc = "encoded"
    /\ IF settings.provider \notin Providers
       THEN Reject("Unknown AI provider: " \o settings.provider) /\ requests' = requests
       ELSE IF ~Configured(settings)
            THEN Reject(ConfigurationError(settings.provider)) /\ requests' = requests
       ELSE /\ pc' = "awaiting"
            /\ requests' = Append(requests, "llm " \o RequestUrl(settings))
            /\ outcome' = outcome
    /\ UNCHANGED <<utilVars, cards, audioMetadata, codecVars, restoreVars, questionVars, cleanVars,
                   settings, serviceVars, transcripts, response>>

\* the request settles and the arm runs to its return or its throw
ReceiveResponse ==
    LET settle(r, result) ==
            /\ response' = r
            /\ content' = result.content
            /\ cleanedContent' = result.cleanedContent
            /\ questions' = result.questions
            /\ IF result.threw THEN Reject(result.error)
               ELSE pc' = "attribute" /\ outcome' = outcome
    IN  /\ pc = "awaiting"
        /\ \E r \in Responses(settings.provider) : settle(r, callProvider(settings.provider, r))
        /\ UNCHANGED <<utilVars, cards, audioMetadata, codecVars, restoreVars, questionsWithAudio,
                       deduplicatedQuestions, settings, serviceVars, transcripts, requests>>

Next ==
    \/ CheckPreconditions
    \/ IndexAudio
    \/ LoadCache
    \/ StartTranscription
    \/ ReceiveTranscription
    \/ FinishStore
    \/ PrepareCardData
    \/ CallProvider
    \/ ReceiveResponse
    \/ RestoreQuestions
    \/ RemoveDuplicates

Spec == Init /\ [][Next]_vars

\* a question with a non-empty prompt and a correctAnswer
HasPromptAndAnswer(q) ==
    /\ q.prompt.t = "string" /\ q.prompt.v # ""
    /\ q.correctAnswer.t \notin {"undefined", "null"}
    /\ ~(q.correctAnswer.t = "string" /\ q.correctAnswer.v = "")

\* C5: validation gate -- every question of the list generateQuestions returns
\* has a non-empty prompt and a correctAnswer, and when the provider's list
\* holds questions lacking either, the invocation still returns the others
C5_ValidationGate ==
    /\ outcome.status = "returned" =>
          \A k \in 1..Len(deduplicatedQuestions.value) :
              HasPromptAndAnswer(deduplicatedQuestions.value[k])
    /\ (pc \in {"deduped", "rejected"}
           /\ \E k \in 1..Len(questions) : HasPromptAndAnswer(questions[k])) =>
          outcome.status = "returned"

\* C9: missing credentials fail fast -- when the selected provider lacks its
\* API key (or the custom provider its key or base URL), the invocation that
\* reaches the provider fails with the configuration error and has sent no
\* request, neither to the LLM provider nor to the transcription provider
C9_MissingCredentialsFailFast ==
    (/\ pc = "rejected"
     /\ Len(cards) > 0 /\ settings.enabled
     /\ settings.provider \in Providers /\ ~Configured(settings)) =>
        /\ outcome = [status |-> "rejected", error |-> ConfigurationError(settings.provider)]
        /\ requests = <<>>

\* the content the provider's envelope carries
EnvelopeContent(provider, r) ==
    ReadPath(r.json, IF provider = "gemini" THEN <<"candidates", "0", "content", "parts", "0", "text">>
                     ELSE IF provider = "anthropic" THEN <<"content", "0", "text">>
                     ELSE <<"choices", "0", "message", "content">>)

\* the request failed, the envelope holds no text, the cleaned text is not
\* enclosed in braces, or it does not parse
ReplyFailed(provider, r) ==
    \/ r.status = "failed"
    \/ LET c       == EnvelopeContent(provider, r)
           cleaned == cleanJsonString(c.value.v)
       IN  \/ c.threw
           \/ c.value.t # "string"
           \/ ~StartsWithAt(cleaned, "{", 1)
           \/ ~StartsWithAt(cleaned, "}", Len(cleaned))
           \/ ~JSONParse(cleaned).ok

\* C10: all-or-nothing result -- once the provider's request has settled, if
\* the request, the envelope extraction, the structural check or the JSON
\* parsing failed, the invocation is rejected with one error and no question
\* list exists at any stage of the pipeline
C10_AllOrNothing ==
    (response.status # "none" /\ ReplyFailed(settings.provider, response)) =>
        /\ pc = "rejected"
        /\ outcome.status = "rejected" /\ outcome.error # ""
        /\ questions = <<>>
        /\ questionsWithAudio = NoQuestions /\ deduplicatedQuestions = NoQuestions

\* a reply whose text is enclosed in braces but cut short has been rejected
\* as invalid JSON
C10_Witness ==
    /\ response.status = "ok"
    /\ content = SubSeq(GoodReply, 1, Len(GoodReply) - 2)
    /\ outcome.status = "rejected"
    /\ Includes(outcome.error, "Invalid JSON response from")

\* C11: structural failure is an error for every provider arm -- cleanJsonString
\* yields a text for the content it is given, and when that text does not
\* start with "{" and end with "}", or fails JSON.parse, the invocation is
\* rejected with a message that names truncation and advises fewer questions
\* or more tokens
C11_StructuralFailureNamesTruncation ==
    (response.status = "ok" /\ content # "") =>
        /\ cleanedContent = cleanJsonString(content)
        /\ (\/ ~StartsWithAt(cleanedContent, "{", 1)
            \/ ~StartsWithAt(cleanedContent, "}", Len(cleanedContent))
            \/ ~JSONParse(cleanedContent).ok) =>
              /\ outcome.status = "rejected"
              /\ Includes(outcome.error, "truncated")
              /\ Includes(outcome.error, "fewer questions")
              /\ Includes(outcome.error, "increase max tokens")

\* a reply of prose, without braces, has been rejected as incomplete
C11_Witness ==
    /\ content = "I cannot help with that."
    /\ cleanedContent = content
    /\ outcome.status = "rejected"
    /\ Includes(outcome.error, "Response appears incomplete")

\* the reply reports that its output was cut off at the token limit
ReportsCutOff(provider, r) ==
    /\ r.status = "ok"
    /\ ReadPath(r.json, IF provider = "gemini" THEN <<"candidates", "0", "finishReason">>
                        ELSE IF provider = "anthropic" THEN <<"stop_reason">>
                        ELSE <<"choices", "0", "finish_reason">>)
         \in {[threw |-> FALSE, value |-> JsString(reason)] :
                 reason \in {"MAX_TOKENS", "LENGTH", "max_tokens", "length"}}

\* C15: truncation is fatal for every provider -- when the settled reply
\* reports cut-off output, the invocation is rejected with a message that
\* recommends fewer questions or more tokens and no question list exists,
\* even when the text of the reply parses
C15_TruncationIsFatal ==
    (response.status # "none" /\ ReportsCutOff(settings.provider, response)) =>
        /\ outcome.status = "rejected"
        /\ Includes(outcome.error, "fewer questions")
        /\ Includes(outcome.error, "increase max tokens")
        /\ questions = <<>>

\* C16: provider rejections are diagnosed -- for every provider a request that
\* fails with a status makes the invocation fail with a message that tells
\* authentication failure (401, 403), rate limit (429) and malformed request
\* (400) apart, and a failure without a status is reported as a network error
\* with troubleshooting guidance
C16_ProviderRejectionsDiagnosed ==
    response.status = "failed" =>
        /\ outcome.status = "rejected"
        /\ response.httpStatus \in {401, 403} => Includes(outcome.error, "authentication failed")
        /\ response.httpStatus = 429 => Includes(outcome.error, "rate limit")
        /\ response.httpStatus = 400 => Includes(outcome.error, "Bad Request")
        /\ response.httpStatus = 0 =>
              Includes(outcome.error, "network error") /\ Includes(outcome.error, "Possible causes")

(***************************************************************************)
(* ExtractSpec: extractAudioWikilinks, as extractAudioMetadata applies it   *)
(* to the front of one card.                                                *)
(***************************************************************************)
EmbedSegs ==
    {"Question text ", "![[audio.mp3]]", "![[Sound.WAV|description]]", "![[ music.ogg |x]]",
     "![[track.m4a]]", "![[a.flac]]", "![[b.aac]]", "![[image.png]]", "![[video.mp4]]",
     "[[c.mp3]]", "![[mp3]]"}

ExtractInit ==
    /\ pc = "start"
    /\ cards \in {<<[id |-> "c1", front |-> t, back |-> "", file |-> "n.md"]>> :
                     t \in TextsOf(EmbedSegs, MaxSegs)}
    /\ audioMetadata = <<>>
    /\ UtilIdle
    /\ CodecIdle /\ RestoreIdle /\ QuestionIdle /\ CleanIdle /\ PipeIdle

ExtractNext == IndexAudio

ExtractSpec == ExtractInit /\ [][ExtractNext]_vars

\* the embeds ![[...]] of a text from position i on, in document order
RECURSIVE EmbedsFrom(_, _)
EmbedsFrom(s, i) ==
    IF i > Len(s) THEN <<>>
    ELSE IF WikilinkMatchEnd(s, i) = 0 THEN EmbedsFrom(s, i + 1)
    ELSE <<SubSeq(s, i, WikilinkMatchEnd(s, i))>> \o EmbedsFrom(s, WikilinkMatchEnd(s, i) + 1)

\* the path part of an embed (before "|", trimmed) ends in "." and one of the
\* audio extensions, compared without regard to case
EndsInAudioExtension(embed) ==
    LET path == ToLowerCase(Trim(SplitFirst(SubSeq(embed, 4, Len(embed) - 2), "|")))
    IN  \E ext \in {"mp3", "wav", "ogg", "m4a", "flac", "aac"} :
            /\ Len(path) > Len(ext)
            /\ SubSeq(path, Len(path) - Len(ext), Len(path)) = "." \o ext

\* C17: extractAudioWikilinks returns, in document order and as their full
\* text, exactly the embeds whose path part ends in one of the extensions mp3,
\* wav, ogg, m4a, flac, aac; other embeds and plain text yield nothing
C17_ExactlyTheAudioEmbeds ==
    pc = "indexed" =>
        audioMetadata["c1"].front = SelectSeq(EmbedsFrom(cards[1].front, 1), EndsInAudioExtension)

\* the text between the first fence, with its json tag if it has one, and
\* the next fence
FencedContent(c) ==
    LET open  == IndexOf(c, Fence, 1) + 3
        start == IF StartsWithAt(c, "json", open) THEN open + 4 ELSE open
    IN  SubSeq(c, start, IndexOf(c, Fence, start) - 1)

\* the text from the first "{" to the last "}"
BracedPart(c) == SubSeq(c, IndexOf(c, "{", 1), LastIndexOf(c, "}"))

\* C18: fence and boundary stripping -- for a text that wraps a JSON object in
\* a fenced code block, with or without the json tag and with or without
\* prose around the braces, cleanJsonString returns exactly the text from the
\* first "{" to the last "}" of the fenced content, and it parses to the same
\* value as the object
C18_FenceAndBoundaryStripping ==
    (/\ pc = "cleaned"
     /\ Includes(content, Fence)
     /\ JSONParse(BracedPart(FencedContent(content))).ok) =>
        /\ cleanedContent = BracedPart(FencedContent(content))
        /\ JSONParse(cleanedContent) = JSONParse(BracedPart(FencedContent(content)))


(***************************************************************************)
(* Transcription inside an invocation.                                      *)
(***************************************************************************)
\* the calls of card i and one of its sides that returned a text
Transcribed(i, name) ==
    {k \in 1..Len(transcripts) :
        /\ Jobs[transcripts[k].job].card = i
        /\ Jobs[transcripts[k].job].side = name
        /\ transcripts[k].result}

\* the field of the encoded card i shows exactly the texts of the calls in
\* done: none (the field with its placeholders), one (quoted) or several
\* (numbered up to their count)
ShowsTexts(field, plain, done, other) ==
    /\ (done = {} /\ other = {}) => field = plain
    /\ Cardinality(done) = 1 =>
          \A k \in done : Includes(field, "(Audio):** \"" \o transcripts[k].text \o "\"")
    /\ Cardinality(done) < 2 => ~Includes(field, "[Audio 1]: ")
    /\ Cardinality(done) >= 2 =>
          /\ Includes(field, "[Audio " \o IntToString(Cardinality(done)) \o "]: ")
          /\ ~Includes(field, "[Audio " \o IntToString(Cardinality(done) + 1) \o "]: ")

\* C12: transcription failure is never fatal -- once the card data is built
\* with voice AI enabled, every audio reference was handed to transcribeAudio
\* in turn, a call that failed (no path, no file, a file too large, a provider
\* error) gave no text, the encoded fields show exactly the texts of the calls
\* that succeeded, and the invocation went on to its provider: it is rejected
\* only by the provider's configuration check or after the provider's request
C12_TranscriptionFailureNeverFatal ==
    (TranscriptionActive /\ Len(cards) > 0 /\ Len(cardData) = Len(cards)) =>
        /\ Len(transcripts) = Len(Jobs)
        /\ \A k \in 1..Len(transcripts) :
              /\ transcripts[k].job = k
              /\ ~transcripts[k].result => transcripts[k].text = ""
        /\ \A i \in 1..Len(cards) :
              /\ cardData[i].hasAudioTranscription
                    = (Transcribed(i, "front") \cup Transcribed(i, "back") # {})
              /\ ShowsTexts(cardData[i].front,
                            replaceAudioWithPlaceholders(cards[i].front,
                                audioMetadata[cards[i].id].front, cards[i].id),
                            Transcribed(i, "front"), Transcribed(i, "back"))
              /\ ShowsTexts(cardData[i].back,
                            replaceAudioWithPlaceholders(cards[i].back,
                                audioMetadata[cards[i].id].back, cards[i].id),
                            Transcribed(i, "back"), Transcribed(i, "front"))
        /\ pc \in {"encoded", "awaiting", "attribute", "attributed", "deduped", "rejected"}
        /\ pc = "rejected" =>
              \/ settings.provider \notin Providers
              \/ ~Configured(settings)
              \/ (requests # <<>> /\ StartsWithAt(requests[Len(requests)], "llm ", 1))

\* the provider's request is out after the first three references failed (the
\* first one at the transcription provider) and the fourth was transcribed
C12_Witness ==
    /\ pc = "awaiting"
    /\ Len(transcripts) = 4
    /\ ~transcripts[1].result /\ ~transcripts[2].result /\ ~transcripts[3].result
    /\ transcripts[4].result
    /\ Len(requests) >= 3
    /\ cardData[2].hasAudioTranscription /\ ~cardData[1].hasAudioTranscription


(***************************************************************************)
(* CacheSpec: one reference transcribed by a service whose caches hold      *)
(* records of earlier sessions.                                             *)
(***************************************************************************)
\* the ways a card writes its audio reference: the vault path of the file, or
\* the bare name of a file that lies in a folder
ReferencePaths == {"a.mp3", "media/d.mp3", "d.mp3", "b.wav", "c.ogg"}

\* fileModifiedTime of a cached record: none, older than the file, that of
\* the file, newer
RecordTimes == 0..3

\* the records a cache may hold for a path: none, or one with a time
CachedRecords(audioPath, words) ==
    {<<>>} \cup {(audioPath :> [text |-> words, fileModifiedTime |-> T]) : T \in RecordTimes}

CacheInit ==
    /\ pc = "indexed"
    /\ \E audioPath \in ReferencePaths :
          /\ cards = <<[id |-> "c1", front |-> "![[" \o audioPath \o "]]", back |-> "A",
                        file |-> "n.md"]>>
          /\ cache \in CachedRecords(audioPath, "memory words")
          /\ \E entries \in CachedRecords(audioPath, "disk words") :
                diskCache = [exists |-> entries # <<>>, entries |-> entries]
    /\ audioMetadata = extractAudioMetadata(cards)
    /\ UtilIdle
    /\ CodecIdle /\ RestoreIdle /\ QuestionIdle /\ CleanIdle
    /\ settings = [enabled |-> TRUE, provider |-> "openai", apiKey |-> "sk", baseUrl |-> "",
                   voiceAI |-> [enabled |-> TRUE, provider |-> "openai-whisper",
                                apiKey |-> "wk", cacheTranscriptions |-> TRUE]]
    /\ cacheLoad = NoCacheLoad
    /\ inFlight = <<>> /\ lookup = NoLookup
    /\ transcripts = <<>> /\ requests = <<>>
    /\ response = NoResponse /\ outcome = Pending

CacheNext == StartTranscription \/ ReceiveTranscription \/ FinishStore

CacheSpec == CacheInit /\ [][CacheNext]_vars

\* C13: cache invalidation -- when a lookup finds a record that carries a
\* fileModifiedTime T, in memory or on disk, for a reference whose audio file
\* exists, it answers absent if the file's modification time exceeds T and
\* answers the record if it does not, however the reference writes the path
C13_CacheInvalidation ==
    (/\ lookup.from \in {"memory", "disk"}
     /\ lookup.fileModifiedTime # 0
     /\ resolveAudioPath(lookup.audioPath, lookup.sourcePath) \in DOMAIN VaultFiles) =>
        IF VaultFiles[resolveAudioPath(lookup.audioPath, lookup.sourcePath)].mtime
               > lookup.fileModifiedTime
        THEN ~lookup.hit
        ELSE lookup.hit /\ lookup.text \in {"memory words", "disk words"}


\* the call under way whose cacheTranscription completes in this step
Completes(call) ==
    /\ call.phase = "store"
    /\ \E k \in DOMAIN transcripts' \ DOMAIN transcripts : transcripts'[k].job = call.job

\* C14: store is best-effort on disk -- whenever a cacheTranscription
\* completes, whether its read or its write of the cache file failed or not,
\* the memory cache holds the record it built for the path, getCacheStats lists
\* the path, and transcribeAudio returns the result (nothing was thrown)
C14_StoreBestEffortOnDisk ==
    [][\A n \in DOMAIN inFlight :
          Completes(inFlight[n]) =>
              /\ inFlight[n].audioPath \in getCacheStats(cache').entries
              /\ cache'[inFlight[n].audioPath] = CachedRecord(inFlight[n])
              /\ \E k \in DOMAIN transcripts' \ DOMAIN transcripts : transcripts'[k].result]_vars


\* the references of side name of card i, in the order the index lists them
SideJobs(i, name) == SelectSeq(Jobs, LAMBDA j : j.card = i /\ j.side = name)

\* C19: sequential transcription -- at most one transcribeAudio call, and so
\* at most one request to the transcription provider, is under way; the calls
\* are made for the cards in input order, for each card its front references
\* in document order and then its back references; and a call is started only
\* when every call before it has returned its text or null
C19_SequentialTranscription ==
    /\ Len(inFlight) <= 1
    /\ \A k \in 1..Len(transcripts) : transcripts[k].job = k
    /\ \A n \in 1..Len(inFlight) : inFlight[n].job = Len(transcripts) + 1
    /\ audioMetadata # <<>> =>
          /\ \A a, b \in 1..Len(Jobs) :
                a < b =>
                   \/ Jobs[a].card < Jobs[b].card
                   \/ Jobs[a].card = Jobs[b].card
                         /\ ~(Jobs[a].side = "back" /\ Jobs[b].side = "front")
          /\ \A i \in 1..Len(cards) :
                /\ [n \in 1..Len(SideJobs(i, "front")) |-> SideJobs(i, "front")[n].wikilink]
                      = extractAudioWikilinks(cards[i].front)
                /\ [n \in 1..Len(SideJobs(i, "back")) |-> SideJobs(i, "back")[n].wikilink]
                      = extractAudioWikilinks(cards[i].back)

\* the request for the fourth reference is under way after the first three
\* calls returned, the first of them with the text of its own request
C19_Witness ==
    /\ Len(inFlight) = 1 /\ inFlight[1].job = 4 /\ inFlight[1].phase = "request"
    /\ Len(transcripts) = 3 /\ transcripts[1].result
    /\ Len(requests) >= 2

\* C20: the in-memory cache is mutated only by the generation task -- every
\* step that removes an entry of the memory cache or replaces its record is a
\* step of a transcribeAudio call: its lookup (a transcribeAudio call starts)
\* or its store (the request of a call settles)
C20_CacheMutatedOnlyByGenerationTask ==
    [][(\E p \in DOMAIN cache : p \notin DOMAIN cache' \/ cache'[p] # cache[p]) =>
          (inFlight' # inFlight \/ transcripts' # transcripts)]_vars


(***************************************************************************)
(* The escapes of a cleaned text.                                           *)
(***************************************************************************)
\* reading s from position i on, every backslash starts a valid JSON escape:
\* it is followed by one of " \ / b f n r t, or by u and four hex digits
RECURSIVE ValidEscapesFrom(_, _)
ValidEscapesFrom(s, i) ==
    IF i > Len(s) THEN TRUE
    ELSE IF CharAt(s, i) # "\\" THEN ValidEscapesFrom(s, i + 1)
    ELSE IF CharAt(s, i + 1) \in {"\"", "\\", "/", "b", "f", "n", "r", "t"}
         THEN ValidEscapesFrom(s, i + 2)
    ELSE IF CharAt(s, i + 1) = "u" /\ \A k \in 2..5 : CharAt(s, i + k) \in HexDigits
         THEN ValidEscapesFrom(s, i + 6)
    ELSE FALSE

\* C23: escape repair postcondition -- in the output of cleanJsonString every
\* backslash is part of a valid JSON escape, for every input text, also one
\* whose backslashes were escaped correctly already
C23_EscapeRepairPostcondition ==
    pc = "cleaned" => ValidEscapesFrom(cleanedContent, 1)


\* the control characters of the repair, each with its letter and the rests
\* of command names that may follow it
ControlRepairs ==
    {[ctl |-> "\t", letter |-> "t",
      words |-> {"ext", "au", "heta", "imes", "an", "op", "o", "riangle", "herefore"}],
     [ctl |-> "\n", letter |-> "n", words |-> {"u", "eq", "abla", "eg"}],
     [ctl |-> "\r", letter |-> "r", words |-> {"ho", "ight", "ef"}],
     [ctl |-> "\f", letter |-> "f", words |-> {"rac", "orall", "oot"}],
     [ctl |-> BackSpace, letter |-> "b", words |-> {"eta", "egin", "f", "ar", "inom"}]}

\* the control characters of s in front of the rest of a command name, each
\* as the position, the letter and the rest
ControlClashes(s) ==
    UNION {UNION {{[at |-> i, letter |-> r.letter, word |-> w] :
                      w \in {w \in r.words : StartsWithAt(s, w, i + 1)}} :
                  i \in {i \in 1..Len(s) : CharAt(s, i) = r.ctl}} :
           r \in ControlRepairs}

\* the number of backslashes that end right in front of position i
RECURSIVE BackslashesBefore(_, _)
BackslashesBefore(s, i) ==
    IF CharAt(s, i - 1) = "\\" THEN 1 + BackslashesBefore(s, i - 1) ELSE 0


\* the clash c of the content is repaired: the cleaned text holds two
\* backslashes, the letter and the rest of the name, and the string it parses
\* to holds one backslash and the full name
Repaired(c) ==
    /\ Includes(cleanedContent, "\\\\" \o c.letter \o c.word)
    /\ JSONParse(cleanedContent).ok =>
          Includes(GetProp(JSONParse(cleanedContent).value, "p").v,
                   "\\" \o c.letter \o c.word)

\* C24: control-character repair -- wherever the text holds a raw tab, line
\* feed, carriage return, form feed or backspace in front of the rest of a
\* recognised command name, and no unpaired backslash stands in front of the
\* control character, cleanJsonString replaces the control character by two
\* backslashes and its letter, so that the parsed string holds one backslash
\* and the full command name; no such control character is left in the output
C24_ControlCharacterRepair ==
    pc = "cleaned" =>
        /\ ControlClashes(cleanedContent) = {}
        /\ \A c \in ControlClashes(content) :
              BackslashesBefore(content, c.at) % 2 = 0 => Repaired(c)

\* the object whose string was a raw tab and ext is cleaned to one that parses
\* to a backslash and text
C24_Witness ==
    /\ pc = "cleaned"
    /\ content = "{\"p\":\"\text\"}"
    /\ cleanedContent = "{\"p\":\"\\\\text\"}"
    /\ JSONParse(cleanedContent).ok
    /\ GetProp(JSONParse(cleanedContent).value, "p").v = "\\text"

\* C24 as stated: every control character in front of the rest of a command
\* name is repaired, whatever stands in front of it
C24_ControlCharacterRepairAnywhere ==
    pc = "cleaned" => \A c \in ControlClashes(content) : Repaired(c)


(***************************************************************************)
(* FallbackSpec: restoreAudioInQuestions applied to a question without      *)
(* placeholder tokens.                                                      *)
(***************************************************************************)
\* a card without audio, a card with audio, and a card sharing words with both
FallbackCards ==
    <<[id |-> "k1", front |-> "Capital of France", back |-> "Paris", file |-> "geo.md"],
      [id |-> "k2", front |-> "Capital of Spain ![[a.mp3]]", back |-> "Madrid", file |-> "geo.md"],
      [id |-> "k3", front |-> "Spain borders France", back |-> "yes", file |-> "geo.md"]>>

FallbackSegs ==
    {"Which capital ", "of Spain ", "of France ", "Madrid? ", "[AUDIO: clip ", "the\tPARIS ",
     "is it ", "spain spain ", "\nborders"}

FallbackInit ==
    /\ pc = "attribute"
    /\ cards = FallbackCards
    /\ audioMetadata = extractAudioMetadata(FallbackCards)
    /\ UtilIdle
    /\ questions \in {<<Question(1, JsString("fill-blank"), JsString(p), JsUndefined,
                                 JsString("x"), JsUndefined)>> :
                         p \in TextsOf(FallbackSegs, MaxSegs)}
    /\ questionsWithAudio = NoQuestions
    /\ deduplicatedQuestions = NoQuestions
    /\ CodecIdle /\ RestoreIdle /\ CleanIdle /\ PipeIdle

FallbackNext == RestoreQuestions

FallbackSpec == FallbackInit /\ [][FallbackNext]_vars

\* the words of s: the maximal runs of characters that are no whitespace, each
\* as its first and last position
WordsOf(s) ==
    {w \in (1..Len(s)) \X (1..Len(s)) :
        /\ w[1] <= w[2]
        /\ \A k \in w[1]..w[2] : CharAt(s, k) \notin WhiteSpace
        /\ (w[1] = 1 \/ CharAt(s, w[1] - 1) \in WhiteSpace)
        /\ (w[2] = Len(s) \/ CharAt(s, w[2] + 1) \in WhiteSpace)}

\* the score the statement gives a card for a prompt
FallbackScore(prompt, card) ==
    Cardinality({w \in WordsOf(prompt) :
                    /\ w[2] - w[1] + 1 > 3
                    /\ Includes(ToLowerCase(card.front \o " " \o card.back),
                                ToLowerCase(SubSeq(prompt, w[1], w[2])))})
        + (IF /\ Includes(prompt, "[AUDIO:")
              /\ extractAudioWikilinks(card.front) \o extractAudioWikilinks(card.back) # <<>>
           THEN 2 ELSE 0)

\* the card the statement names: the earliest card of the highest score, the
\* first card when that score is 0
FallbackCard(prompt, cs) ==
    CHOOSE b \in 1..Len(cs) :
        /\ \A n \in 1..Len(cs) : FallbackScore(prompt, cs[n]) <= FallbackScore(prompt, cs[b])
        /\ \A n \in 1..(b - 1) : FallbackScore(prompt, cs[n]) < FallbackScore(prompt, cs[b])

LlmRequests == SelectSeq(requests, LAMBDA r : StartsWithAt(r, "llm ", 1))

\* the host the selected provider is reached at
SelectedHost ==
    CASE settings.provider = "openai" -> "https://api.openai.com/"
      [] settings.provider = "anthropic" -> "https://api.anthropic.com/"
      [] settings.provider = "gemini" -> "https://generativelanguage.googleapis.com/"
      [] settings.provider = "openrouter" -> "https://openrouter.ai/"
      [] settings.provider = "custom" -> settings.baseUrl \o "/"
      [] OTHER -> "none"

\* C26: one provider request per generation -- an invocation sends at most
\* one request to an LLM provider, also after the request failed or its reply
\* was rejected; the request goes to the selected provider; and when it is
\* sent every transcribeAudio call has returned (or none was made), so that it
\* is the last request of the invocation
C26_OneProviderRequest ==
    /\ Len(LlmRequests) <= 1
    /\ Len(LlmRequests) = 1 =>
          /\ StartsWithAt(LlmRequests[1], "llm " \o SelectedHost, 1)
          /\ requests[Len(requests)] = LlmRequests[1]
          /\ inFlight = <<>>
          /\ TranscriptionActive =>
                /\ Len(transcripts) = Len(Jobs)
                /\ \A k \in 1..Len(transcripts) : transcripts[k].job = k

\* the one request to the provider failed after two transcription requests
\* and the invocation is rejected
C26_Witness ==
    /\ pc = "rejected"
    /\ response.status = "failed"
    /\ Len(LlmRequests) = 1
    /\ Len(requests) >= 3
    /\ settings.provider = "gemini"


(***************************************************************************)
(* RaceSpec: cacheTranscription calls of overlapping invocations.  Every    *)
(* invocation constructs its own generator and with it its own service; all *)
(* services save to the same cache file.  In this specification cache holds *)
(* the memory cache of every service and inFlight every cacheTranscription  *)
(* call issued so far, in the order of issue.                               *)
(***************************************************************************)
\* the invocations that overlap, each with a service of its own
Services == {1, 2}

\* the cacheTranscription calls one invocation issues at most
MaxStores == 2

\* what the transcription requests of each invocation answer
TranscriptTexts == <<TranscriptText, "other words">>

\* the calls a service has issued
StoresOf(calls, svc) == {k \in DOMAIN calls : calls[k].service = svc}

RaceInit ==
    /\ pc = "indexed"
    /\ cards = <<>>
    /\ audioMetadata = <<>>
    /\ UtilIdle
    /\ CodecIdle /\ RestoreIdle /\ QuestionIdle /\ CleanIdle
    /\ settings = [enabled |-> TRUE, provider |-> "openai", apiKey |-> "sk", baseUrl |-> "",
                   voiceAI |-> [enabled |-> TRUE, provider |-> "openai-whisper",
                                apiKey |-> "wk", cacheTranscriptions |-> TRUE]]
    /\ diskCache \in DiskCaches
    /\ cache = [svc \in Services |-> <<>>]
    /\ cacheLoad = NoCacheLoad
    /\ inFlight = <<>> /\ lookup = NoLookup
    /\ transcripts = <<>> /\ requests = <<>>
    /\ response = NoResponse /\ outcome = Pending

\* cacheTranscription up to its first await: the record is built and put in
\* the memory cache of the service; the cache file is looked up and, when it
\* exists, its read is started; when it does not, the write of an object
\* holding the one entry is started.  A service awaits each of its calls
BeginStore ==
    /\ pc = "indexed"
    /\ \E svc \in Services, audioPath \in {"a.mp3", "media/b.wav"} :
          LET cached == [text |-> TranscriptTexts[svc],
                         fileModifiedTime |-> VaultFiles[audioPath].mtime]
          IN  /\ Cardinality(StoresOf(inFlight, svc)) < MaxStores
              /\ \A k \in StoresOf(inFlight, svc) : inFlight[k].phase = "done"
              /\ cache' = [cache EXCEPT ![svc] = cacheTranscription(audioPath, cached, cache[svc])]
              /\ inFlight' =
                    Append(inFlight,
                           [service |-> svc, audioPath |-> audioPath, cached |-> cached,
                            failed |-> FALSE,
                            phase |-> IF diskCache.exists THEN "read" ELSE "write",
                            diskCache |-> IF diskCache.exists THEN NoDiskCache
                                          ELSE SaveToDisk(audioPath, cached, NoDiskCache, "ok")])
    /\ UNCHANGED <<utilVars, pc, cards, audioMetadata, codecVars, restoreVars, questionVars, cleanVars,
                   settings, diskCache, cacheLoad, lookup, callVars>>

\* the read of the cache file settles: the call holds the object parsed from
\* what the file holds now ({} when the read fails), sets its entry and
\* starts the write
ReadCacheFile ==
    /\ \E k \in DOMAIN inFlight, io \in {"ok", "read-fail"} :
          /\ inFlight[k].phase = "read"
          /\ inFlight' =
                [inFlight EXCEPT ![k].phase = "write",
                                 ![k].failed = (io # "ok"),
                                 ![k].diskCache = SaveToDisk(inFlight[k].audioPath,
                                                             inFlight[k].cached, diskCache, io)]
    /\ UNCHANGED <<utilVars, pc, cards, audioMetadata, codecVars, restoreVars, questionVars, cleanVars,
                   settings, cache, diskCache, cacheLoad, lookup, callVars>>

\* the write settles: the file holds the object of the call, or what it held
\* when the write fails, and cacheTranscription returns
WriteCacheFile ==
    /\ \E k \in DOMAIN inFlight, io \in {"ok", "write-fail"} :
          /\ inFlight[k].phase = "write"
          /\ diskCache' = IF io = "ok" THEN inFlight[k].diskCache ELSE diskCache
          /\ inFlight' = [inFlight EXCEPT ![k].phase = "done",
                                          ![k].failed = (inFlight[k].failed \/ io # "ok")]
    /\ UNCHANGED <<utilVars, pc, cards, audioMetadata, codecVars, restoreVars, questionVars, cleanVars,
                   settings, cache, cacheLoad, lookup, callVars>>

RaceNext == BeginStore \/ ReadCacheFile \/ WriteCacheFile

RaceSpec == RaceInit /\ [][RaceNext]_vars

\* the records stored last for a path: for every service that stored the
\* path, that of the latest of its calls for it (a service awaits each call)
StoredLast(calls, audioPath) ==
    {calls[k].cached : k \in {k \in DOMAIN calls :
                                /\ calls[k].audioPath = audioPath
                                /\ \A j \in StoresOf(calls, calls[k].service) :
                                      calls[j].audioPath = audioPath => j <= k}}

\* C21: no concurrent-write race on the disk cache -- once every
\* cacheTranscription call issued by the overlapping invocations has completed
\* and none met a disk error, the cache file maps every stored audio path to
\* the record stored last for it (where two invocations stored the same path,
\* to the last record of one of them)
C21_NoLostStore ==
    (/\ inFlight # <<>>
     /\ \A k \in DOMAIN inFlight : inFlight[k].phase = "done" /\ ~inFlight[k].failed) =>
        /\ diskCache.exists
        /\ \A k \in DOMAIN inFlight :
              /\ inFlight[k].audioPath \in DOMAIN diskCache.entries
              /\ diskCache.entries[inFlight[k].audioPath]
                     \in StoredLast(inFlight, inFlight[k].audioPath)


(***************************************************************************)
(* ResolveSpec: two cards of notes in different folders are transcribed by  *)
(* a service whose caches are empty.                                        *)
(***************************************************************************)
\* the ways the cards write their reference: a path below the folder of the
\* note, a vault path, a bare name, a path with a fragment
ResolveReferences == {"audio/clip.mp3", "en/audio/clip.mp3", "a.mp3", "d.mp3", "a.mp3#t=5"}

\* the notes the cards come from
ResolveNotes == {"en/n.md", "fr/n.md"}

ResolveInit ==
    /\ pc = "indexed"
    /\ \E r1 \in ResolveReferences, r2 \in ResolveReferences, n2 \in ResolveNotes :
          cards = <<[id |-> "c1", front |-> "![[" \o r1 \o "]]", back |-> "A",
                     file |-> "en/n.md"],
                    [id |-> "c2", front |-> "![[" \o r2 \o "]]", back |-> "B", file |-> n2]>>
    /\ audioMetadata = extractAudioMetadata(cards)
    /\ UtilIdle
    /\ CodecIdle /\ RestoreIdle /\ QuestionIdle /\ CleanIdle
    /\ settings = [enabled |-> TRUE, provider |-> "openai", apiKey |-> "sk", baseUrl |-> "",
                   voiceAI |-> [enabled |-> TRUE, provider |-> "openai-whisper",
                                apiKey |-> "wk", cacheTranscriptions |-> TRUE]]
    /\ cache = <<>> /\ diskCache = NoDiskCache /\ cacheLoad = NoCacheLoad
    /\ inFlight = <<>> /\ lookup = NoLookup
    /\ transcripts = <<>> /\ requests = <<>>
    /\ response = NoResponse /\ outcome = Pending

ResolveNext == StartTranscription \/ ReceiveTranscription \/ FinishStore

ResolveSpec == ResolveInit /\ [][ResolveNext]_vars

\* C22: cache records are keyed by the resolved file -- a cache hit for a
\* reference returns the transcription of the file that the reference
\* resolves to from the source file of its card
C22_KeyedByResolvedFile ==
    lookup.hit =>
        /\ resolveAudioPath(lookup.audioPath, lookup.sourcePath) \in DOMAIN VaultFiles
        /\ lookup.text = VaultFiles[resolveAudioPath(lookup.audioPath, lookup.sourcePath)].speech


(***************************************************************************)
(* RemoveSpec: audio-utils.removeAudioWikilinks applied to a markdown text. *)
(***************************************************************************)
\* markdown.replace(audioWikilinkRegex, callback) from position i on: an embed
\* that passes the extension test is replaced by '', any other match kept
RECURSIVE RemoveAudioFrom(_, _)
RemoveAudioFrom(s, i) ==
    IF i > Len(s) THEN ""
    ELSE LET e == WikilinkMatchEnd(s, i)
         IN  IF e = 0 THEN CharAt(s, i) \o RemoveAudioFrom(s, i + 1)
             ELSE IF IsAudioPath(SubSeq(s, i + 3, e - 2)) THEN RemoveAudioFrom(s, e + 1)
             ELSE SubSeq(s, i, e) \o RemoveAudioFrom(s, e + 1)

\* s.replace(/\n\s*\n\s*\n/g, '\n\n') from position i on: a line feed whose
\* run of whitespace holds two more line feeds matches up to the last of them
RECURSIVE CollapseBlankLinesFrom(_, _)
CollapseBlankLinesFrom(s, i) ==
    IF i > Len(s) THEN ""
    ELSE LET feeds == {j \in i..WhiteSpaceEnd(s, i) : CharAt(s, j) = "\n"}
         IN  IF CharAt(s, i) = "\n" /\ Cardinality(feeds) >= 3
             THEN "\n\n" \o CollapseBlankLinesFrom(s, (CHOOSE j \in feeds : \A k \in feeds : k <= j) + 1)
             ELSE CharAt(s, i) \o CollapseBlankLinesFrom(s, i + 1)

removeAudioWikilinks(markdown) == CollapseBlankLinesFrom(RemoveAudioFrom(markdown, 1), 1)

RemoveSegs ==
    {"Question ", " text", "![[audio.mp3]]", "![[audio2.wav|description]]", "![[image.png]]",
     "\n", "\n \n", "![", "[b.mp3]]", "![![[a.mp3]]"}

RemoveInit ==
    /\ pc = "remove"
    /\ cards = <<>>
    /\ audioMetadata = <<>>
    /\ embedText \in TextsOf(RemoveSegs, MaxSegs)
    /\ strippedText = "" /\ childDeck = "" /\ parentDeck = "" /\ isChild = FALSE
    /\ CodecIdle /\ RestoreIdle /\ QuestionIdle /\ CleanIdle /\ PipeIdle

\* const cleaned = removeAudioWikilinks(markdown)
RemoveWikilinks ==
    /\ pc = "remove"
    /\ strippedText' = removeAudioWikilinks(embedText)
    /\ pc' = "removed"
    /\ UNCHANGED <<cards, audioMetadata, codecVars, restoreVars, questionVars, cleanVars, pipeVars,
                   embedText, childDeck, parentDeck, isChild>>

RemoveNext == RemoveWikilinks

RemoveSpec == RemoveInit /\ [][RemoveNext]_vars

\* the embeds of a text that extractAudioWikilinks does not return
OtherEmbeds(s) == SelectSeq(EmbedsFrom(s, 1), LAMBDA e : ~IsAudioPath(SubSeq(e, 4, Len(e) - 2)))

\* C27: removeAudioWikilinks deletes the embeds that extractAudioWikilinks
\* returns for the text and keeps every other embed, so that the result holds
\* no embed that extractAudioWikilinks recognises and the same other embeds
C27_RemovesExactlyTheAudioEmbeds ==
    pc = "removed" =>
        /\ extractAudioWikilinks(strippedText) = <<>>
        /\ OtherEmbeds(strippedText) = OtherEmbeds(embedText)


(***************************************************************************)
(* DeckSpec: deck-naming.isChildDeck applied to two deck names.             *)
(***************************************************************************)
\* deckName.split('/')
RECURSIVE SplitDeck(_)
SplitDeck(s) ==
    LET i == IndexOf(s, "/", 1)
    IN  IF i = 0 THEN <<s>> ELSE <<SubSeq(s, 1, i - 1)>> \o SplitDeck(SubSeq(s, i + 1, Len(s)))

\* segments.join('/')
RECURSIVE JoinDeck(_)
JoinDeck(segments) ==
    IF Len(segments) = 0 THEN ""
    ELSE IF Len(segments) = 1 THEN segments[1]
    ELSE segments[1] \o "/" \o JoinDeck(Tail(segments))

\* .map(s => s.trim())
TrimAll(segments) == [i \in DOMAIN segments |-> Trim(segments[i])]

\* normalizeDeckName: split at '/', trim, drop the empty segments, join
normalizeDeckName(deckName) ==
    JoinDeck(SelectSeq(TrimAll(SplitDeck(deckName)), LAMBDA seg : Len(seg) > 0))

\* isChildDeck with the parent compared as a prefix of the text
isChildDeckByText(child, parent) ==
    LET normalizedChild  == ToLowerCase(normalizeDeckName(child))
        normalizedParent == ToLowerCase(normalizeDeckName(parent))
    IN  IF normalizedChild = normalizedParent THEN FALSE
        ELSE StartsWithAt(normalizedChild, normalizedParent, 1)

\* isChildDeck(childDeck, parentDeck)
isChildDeck(child, parent) ==
    LET normalizedChild  == ToLowerCase(normalizeDeckName(child))
        normalizedParent == ToLowerCase(normalizeDeckName(parent))
    IN  IF normalizedChild = normalizedParent THEN FALSE
        ELSE StartsWithAt(normalizedChild, normalizedParent \o "/", 1)

\* the segments the names of the child and of the parent are written with
ChildParts == {"MATH", " Algebra ", "Mathematics", ""}
ParentParts == {"Math", " ALGEBRA", ""}

\* the segments a parent name is written with at most; a child name has one more
MaxDeckDepth == 2

\* the names of up to n segments joined by '/'
DeckNames(parts, n) == {JoinDeck(f) : f \in UNION {[1..k -> parts] : k \in 1..n}}

DeckInit ==
    /\ pc = "deck"
    /\ cards = <<>>
    /\ audioMetadata = <<>>
    /\ childDeck \in DeckNames(ChildParts, MaxDeckDepth + 1)
    /\ parentDeck \in DeckNames(ParentParts, MaxDeckDepth)
    /\ isChild = FALSE
    /\ embedText = "" /\ strippedText = ""
    /\ CodecIdle /\ RestoreIdle /\ QuestionIdle /\ CleanIdle /\ PipeIdle

\* const result = isChildDeck(childDeck, parentDeck)
CheckChildDeck ==
    /\ pc = "deck"
    /\ isChild' = isChildDeck(childDeck, parentDeck)
    /\ pc' = "decked"
    /\ UNCHANGED <<cards, audioMetadata, codecVars, restoreVars, questionVars, cleanVars, pipeVars,
                   embedText, strippedText, childDeck, parentDeck>>

DeckNext == CheckChildDeck

DeckSpec == DeckInit /\ [][DeckNext]_vars

\* the segment list of a name after normalization and lower-casing: the
\* pieces between the slashes, trimmed and lower-cased, the empty ones dropped
RECURSIVE DeckSegmentsFrom(_, _, _)
DeckSegmentsFrom(s, i, piece) ==
    LET done == IF Trim(piece) = "" THEN <<>> ELSE <<ToLowerCase(Trim(piece))>>
    IN  IF i > Len(s) THEN done
        ELSE IF CharAt(s, i) = "/" THEN done \o DeckSegmentsFrom(s, i + 1, "")
        ELSE DeckSegmentsFrom(s, i + 1, piece \o CharAt(s, i))

\* p is a strict prefix of c
StrictPrefix(p, c) == Len(p) < Len(c) /\ \A i \in 1..Len(p) : c[i] = p[i]

\* C28: isChildDeck(child, parent) is true exactly when the parent has at
\* least one segment after normalization and its segment list, lower-cased,
\* is a strict prefix of the child's; for a parent name without segments it
\* is false
C28_ChildDeckIsStrictSegmentPrefix ==
    pc = "decked" =>
        LET holds(p, c) == isChild <=> (p # <<>> /\ StrictPrefix(p, c))
        IN  holds(DeckSegmentsFrom(parentDeck, 1, ""), DeckSegmentsFrom(childDeck, 1, ""))

\* a nested child written with spaces, other case and a trailing slash
C28_Witness ==
    /\ pc = "decked"
    /\ childDeck = "MATH/ Algebra /"
    /\ parentDeck = "/Math"
    /\ isChild

\* C28 as stated: true exactly when the parent's segment list is a strict
\* prefix of the child's
C28_ChildDeckExactlyStrictPrefix ==
    pc = "decked" =>
        (isChild <=> StrictPrefix(DeckSegmentsFrom(parentDeck, 1, ""),
                                  DeckSegmentsFrom(childDeck, 1, "")))


\* C29: every question that restoreAudioInQuestions hands on towards the
\* result of generateQuestions, for a non-empty card list, has as sourceCardId
\* the id of one of the cards of the invocation, whatever tokens the
\* provider's text holds
C29_SourceCardIsACardOfTheInvocation ==
    (pc = "attributed" /\ ~questionsWithAudio.threw /\ Len(cards) > 0) =>
        \A n \in 1..Len(questionsWithAudio.value) :
            questionsWithAudio.value[n].sourceCardId
                \in {JsString(cards[i].id) : i \in 1..Len(cards)}


\* the invocation has done nothing but check its arguments and settings
NothingStarted ==
    /\ audioMetadata = <<>> /\ cardData = <<>>
    /\ lookup = NoLookup /\ inFlight = <<>> /\ transcripts = <<>>
    /\ requests = <<>> /\ response = NoResponse
    /\ questions = <<>> /\ content = ""

\* C30: precondition checks come first -- an invocation with an empty card
\* list or with AI quiz generation disabled never gets past its two guards:
\* it is rejected with the guard's error while no audio was indexed, no cache
\* lookup, transcription request or provider request was made, and its steps
\* leave the memory cache and the cache file as they were
C30_PreconditionsFirst ==
    /\ []((Len(cards) = 0 \/ ~settings.enabled) =>
             /\ pc \in {"new", "rejected"}
             /\ NothingStarted
             /\ pc = "rejected" =>
                   outcome = [status |-> "rejected",
                              error |-> IF Len(cards) = 0
                                        THEN "No cards available to generate quiz"
                                        ELSE "AI quiz generation is not enabled in settings"])
    /\ [][((Len(cards) = 0 \/ ~settings.enabled) /\ pc' # pc) =>
             (pc' = "rejected" /\ cache' = cache /\ diskCache' = diskCache)]_vars

\* an invocation with cards and voice AI on but quiz generation disabled is
\* rejected while the cache file holds a record
C30_Witness ==
    /\ pc = "rejected"
    /\ Len(cards) > 0 /\ ~settings.enabled
    /\ settings.voiceAI.enabled /\ diskCache.exists
    /\ outcome.error = "AI quiz generation is not enabled in settings"

====
